---- MODULE Spec2Model ----
(***************************************************************************)
(* A model of src/app.py: the WhatsApp webhook that transcribes a voice    *)
(* note, holds the transcript per sender in PENDING_TRANSCRIPTIONS, and on *)
(* the confirmation message "1" parses it and appends a row to the sheet.  *)
(*                                                                         *)
(* A Python str is modelled as a sequence of one-character strings, so     *)
(* that strip, replace, startswith, int() and the regular expression are   *)
(* computed character by character as the code computes them.              *)
(***************************************************************************)
EXTENDS Integers, Sequences, FiniteSets, TLC

(***************************************************************************)
(* Python values                                                           *)
(***************************************************************************)

\* Python's None, and a present value; request.values.get and re groups
\* yield one or the other.
PyNone == [none |-> TRUE]
Some(v) == [some |-> v]
IsNone(o) == o = PyNone

\* the least and the greatest number of a non-empty set of integers
Min(S) == CHOOSE x \in S : \A y \in S : x <= y
Max(S) == 0 - Min({0 - x : x \in S})

\* A character of a Python str up to U+00FF is the one-character string of
\* that character. A character beyond U+00FF is the string of its Python
\* escape: "\\u0663" is ARABIC-INDIC DIGIT THREE, "\\u212a" KELVIN SIGN,
\* "\\U0001d7ce" MATHEMATICAL BOLD DIGIT ZERO.

\* the characters str.isspace() is true of: what str.strip() removes and \s
\* of a str pattern matches. The first row is U+0009..U+000D and
\* U+001C..U+001F, the second starts with U+0020, U+0085 and U+00A0.
Whitespace ==
    {
      "\t", "\n", "", "\f", "\r", "", "", "", "",
      " ", "", " ", "\\u1680", "\\u2000", "\\u2001", "\\u2002",
      "\\u2003", "\\u2004", "\\u2005", "\\u2006", "\\u2007", "\\u2008",
      "\\u2009", "\\u200a", "\\u2028", "\\u2029", "\\u202f", "\\u205f",
      "\\u3000" }

\* str.isspace() of one character
IsSpace(c) == c \in Whitespace

\* the whitespace int() accepts around the number: str.isspace() without the
\* ASCII separators \x1c-\x1f
IsIntSpace(c) == IsSpace(c) /\ c \notin {"", "", "", ""}

\* the decimal digits of Unicode (category Nd), one run of ten per script,
\* each from its zero to its nine: what \d of a str pattern matches and int()
\* converts
DecimalRuns ==
    <<
      <<"0", "1", "2", "3", "4", "5", "6", "7", "8", "9">>,
      <<"\\u0660", "\\u0661", "\\u0662", "\\u0663", "\\u0664", "\\u0665", "\\u0666", "\\u0667", "\\u0668", "\\u0669">>,
      <<"\\u06f0", "\\u06f1", "\\u06f2", "\\u06f3", "\\u06f4", "\\u06f5", "\\u06f6", "\\u06f7", "\\u06f8", "\\u06f9">>,
      <<"\\u07c0", "\\u07c1", "\\u07c2", "\\u07c3", "\\u07c4", "\\u07c5", "\\u07c6", "\\u07c7", "\\u07c8", "\\u07c9">>,
      <<"\\u0966", "\\u0967", "\\u0968", "\\u0969", "\\u096a", "\\u096b", "\\u096c", "\\u096d", "\\u096e", "\\u096f">>,
      <<"\\u09e6", "\\u09e7", "\\u09e8", "\\u09e9", "\\u09ea", "\\u09eb", "\\u09ec", "\\u09ed", "\\u09ee", "\\u09ef">>,
      <<"\\u0a66", "\\u0a67", "\\u0a68", "\\u0a69", "\\u0a6a", "\\u0a6b", "\\u0a6c", "\\u0a6d", "\\u0a6e", "\\u0a6f">>,
      <<"\\u0ae6", "\\u0ae7", "\\u0ae8", "\\u0ae9", "\\u0aea", "\\u0aeb", "\\u0aec", "\\u0aed", "\\u0aee", "\\u0aef">>,
      <<"\\u0b66", "\\u0b67", "\\u0b68", "\\u0b69", "\\u0b6a", "\\u0b6b", "\\u0b6c", "\\u0b6d", "\\u0b6e", "\\u0b6f">>,
      <<"\\u0be6", "\\u0be7", "\\u0be8", "\\u0be9", "\\u0bea", "\\u0beb", "\\u0bec", "\\u0bed", "\\u0bee", "\\u0bef">>,
      <<"\\u0c66", "\\u0c67", "\\u0c68", "\\u0c69", "\\u0c6a", "\\u0c6b", "\\u0c6c", "\\u0c6d", "\\u0c6e", "\\u0c6f">>,
      <<"\\u0ce6", "\\u0ce7", "\\u0ce8", "\\u0ce9", "\\u0cea", "\\u0ceb", "\\u0cec", "\\u0ced", "\\u0cee", "\\u0cef">>,
      <<"\\u0d66", "\\u0d67", "\\u0d68", "\\u0d69", "\\u0d6a", "\\u0d6b", "\\u0d6c", "\\u0d6d", "\\u0d6e", "\\u0d6f">>,
      <<"\\u0de6", "\\u0de7", "\\u0de8", "\\u0de9", "\\u0dea", "\\u0deb", "\\u0dec", "\\u0ded", "\\u0dee", "\\u0def">>,
      <<"\\u0e50", "\\u0e51", "\\u0e52", "\\u0e53", "\\u0e54", "\\u0e55", "\\u0e56", "\\u0e57", "\\u0e58", "\\u0e59">>,
      <<"\\u0ed0", "\\u0ed1", "\\u0ed2", "\\u0ed3", "\\u0ed4", "\\u0ed5", "\\u0ed6", "\\u0ed7", "\\u0ed8", "\\u0ed9">>,
      <<"\\u0f20", "\\u0f21", "\\u0f22", "\\u0f23", "\\u0f24", "\\u0f25", "\\u0f26", "\\u0f27", "\\u0f28", "\\u0f29">>,
      <<"\\u1040", "\\u1041", "\\u1042", "\\u1043", "\\u1044", "\\u1045", "\\u1046", "\\u1047", "\\u1048", "\\u1049">>,
      <<"\\u1090", "\\u1091", "\\u1092", "\\u1093", "\\u1094", "\\u1095", "\\u1096", "\\u1097", "\\u1098", "\\u1099">>,
      <<"\\u17e0", "\\u17e1", "\\u17e2", "\\u17e3", "\\u17e4", "\\u17e5", "\\u17e6", "\\u17e7", "\\u17e8", "\\u17e9">>,
      <<"\\u1810", "\\u1811", "\\u1812", "\\u1813", "\\u1814", "\\u1815", "\\u1816", "\\u1817", "\\u1818", "\\u1819">>,
      <<"\\u1946", "\\u1947", "\\u1948", "\\u1949", "\\u194a", "\\u194b", "\\u194c", "\\u194d", "\\u194e", "\\u194f">>,
      <<"\\u19d0", "\\u19d1", "\\u19d2", "\\u19d3", "\\u19d4", "\\u19d5", "\\u19d6", "\\u19d7", "\\u19d8", "\\u19d9">>,
      <<"\\u1a80", "\\u1a81", "\\u1a82", "\\u1a83", "\\u1a84", "\\u1a85", "\\u1a86", "\\u1a87", "\\u1a88", "\\u1a89">>,
      <<"\\u1a90", "\\u1a91", "\\u1a92", "\\u1a93", "\\u1a94", "\\u1a95", "\\u1a96", "\\u1a97", "\\u1a98", "\\u1a99">>,
      <<"\\u1b50", "\\u1b51", "\\u1b52", "\\u1b53", "\\u1b54", "\\u1b55", "\\u1b56", "\\u1b57", "\\u1b58", "\\u1b59">>,
      <<"\\u1bb0", "\\u1bb1", "\\u1bb2", "\\u1bb3", "\\u1bb4", "\\u1bb5", "\\u1bb6", "\\u1bb7", "\\u1bb8", "\\u1bb9">>,
      <<"\\u1c40", "\\u1c41", "\\u1c42", "\\u1c43", "\\u1c44", "\\u1c45", "\\u1c46", "\\u1c47", "\\u1c48", "\\u1c49">>,
      <<"\\u1c50", "\\u1c51", "\\u1c52", "\\u1c53", "\\u1c54", "\\u1c55", "\\u1c56", "\\u1c57", "\\u1c58", "\\u1c59">>,
      <<"\\ua620", "\\ua621", "\\ua622", "\\ua623", "\\ua624", "\\ua625", "\\ua626", "\\ua627", "\\ua628", "\\ua629">>,
      <<"\\ua8d0", "\\ua8d1", "\\ua8d2", "\\ua8d3", "\\ua8d4", "\\ua8d5", "\\ua8d6", "\\ua8d7", "\\ua8d8", "\\ua8d9">>,
      <<"\\ua900", "\\ua901", "\\ua902", "\\ua903", "\\ua904", "\\ua905", "\\ua906", "\\ua907", "\\ua908", "\\ua909">>,
      <<"\\ua9d0", "\\ua9d1", "\\ua9d2", "\\ua9d3", "\\ua9d4", "\\ua9d5", "\\ua9d6", "\\ua9d7", "\\ua9d8", "\\ua9d9">>,
      <<"\\ua9f0", "\\ua9f1", "\\ua9f2", "\\ua9f3", "\\ua9f4", "\\ua9f5", "\\ua9f6", "\\ua9f7", "\\ua9f8", "\\ua9f9">>,
      <<"\\uaa50", "\\uaa51", "\\uaa52", "\\uaa53", "\\uaa54", "\\uaa55", "\\uaa56", "\\uaa57", "\\uaa58", "\\uaa59">>,
      <<"\\uabf0", "\\uabf1", "\\uabf2", "\\uabf3", "\\uabf4", "\\uabf5", "\\uabf6", "\\uabf7", "\\uabf8", "\\uabf9">>,
      <<"\\uff10", "\\uff11", "\\uff12", "\\uff13", "\\uff14", "\\uff15", "\\uff16", "\\uff17", "\\uff18", "\\uff19">>,
      <<"\\U000104a0", "\\U000104a1", "\\U000104a2", "\\U000104a3", "\\U000104a4", "\\U000104a5", "\\U000104a6", "\\U000104a7", "\\U000104a8", "\\U000104a9">>,
      <<"\\U00010d30", "\\U00010d31", "\\U00010d32", "\\U00010d33", "\\U00010d34", "\\U00010d35", "\\U00010d36", "\\U00010d37", "\\U00010d38", "\\U00010d39">>,
      <<"\\U00011066", "\\U00011067", "\\U00011068", "\\U00011069", "\\U0001106a", "\\U0001106b", "\\U0001106c", "\\U0001106d", "\\U0001106e", "\\U0001106f">>,
      <<"\\U000110f0", "\\U000110f1", "\\U000110f2", "\\U000110f3", "\\U000110f4", "\\U000110f5", "\\U000110f6", "\\U000110f7", "\\U000110f8", "\\U000110f9">>,
      <<"\\U00011136", "\\U00011137", "\\U00011138", "\\U00011139", "\\U0001113a", "\\U0001113b", "\\U0001113c", "\\U0001113d", "\\U0001113e", "\\U0001113f">>,
      <<"\\U000111d0", "\\U000111d1", "\\U000111d2", "\\U000111d3", "\\U000111d4", "\\U000111d5", "\\U000111d6", "\\U000111d7", "\\U000111d8", "\\U000111d9">>,
      <<"\\U000112f0", "\\U000112f1", "\\U000112f2", "\\U000112f3", "\\U000112f4", "\\U000112f5", "\\U000112f6", "\\U000112f7", "\\U000112f8", "\\U000112f9">>,
      <<"\\U00011450", "\\U00011451", "\\U00011452", "\\U00011453", "\\U00011454", "\\U00011455", "\\U00011456", "\\U00011457", "\\U00011458", "\\U00011459">>,
      <<"\\U000114d0", "\\U000114d1", "\\U000114d2", "\\U000114d3", "\\U000114d4", "\\U000114d5", "\\U000114d6", "\\U000114d7", "\\U000114d8", "\\U000114d9">>,
      <<"\\U00011650", "\\U00011651", "\\U00011652", "\\U00011653", "\\U00011654", "\\U00011655", "\\U00011656", "\\U00011657", "\\U00011658", "\\U00011659">>,
      <<"\\U000116c0", "\\U000116c1", "\\U000116c2", "\\U000116c3", "\\U000116c4", "\\U000116c5", "\\U000116c6", "\\U000116c7", "\\U000116c8", "\\U000116c9">>,
      <<"\\U00011730", "\\U00011731", "\\U00011732", "\\U00011733", "\\U00011734", "\\U00011735", "\\U00011736", "\\U00011737", "\\U00011738", "\\U00011739">>,
      <<"\\U000118e0", "\\U000118e1", "\\U000118e2", "\\U000118e3", "\\U000118e4", "\\U000118e5", "\\U000118e6", "\\U000118e7", "\\U000118e8", "\\U000118e9">>,
      <<"\\U00011950", "\\U00011951", "\\U00011952", "\\U00011953", "\\U00011954", "\\U00011955", "\\U00011956", "\\U00011957", "\\U00011958", "\\U00011959">>,
      <<"\\U00011c50", "\\U00011c51", "\\U00011c52", "\\U00011c53", "\\U00011c54", "\\U00011c55", "\\U00011c56", "\\U00011c57", "\\U00011c58", "\\U00011c59">>,
      <<"\\U00011d50", "\\U00011d51", "\\U00011d52", "\\U00011d53", "\\U00011d54", "\\U00011d55", "\\U00011d56", "\\U00011d57", "\\U00011d58", "\\U00011d59">>,
      <<"\\U00011da0", "\\U00011da1", "\\U00011da2", "\\U00011da3", "\\U00011da4", "\\U00011da5", "\\U00011da6", "\\U00011da7", "\\U00011da8", "\\U00011da9">>,
      <<"\\U00016a60", "\\U00016a61", "\\U00016a62", "\\U00016a63", "\\U00016a64", "\\U00016a65", "\\U00016a66", "\\U00016a67", "\\U00016a68", "\\U00016a69">>,
      <<"\\U00016ac0", "\\U00016ac1", "\\U00016ac2", "\\U00016ac3", "\\U00016ac4", "\\U00016ac5", "\\U00016ac6", "\\U00016ac7", "\\U00016ac8", "\\U00016ac9">>,
      <<"\\U00016b50", "\\U00016b51", "\\U00016b52", "\\U00016b53", "\\U00016b54", "\\U00016b55", "\\U00016b56", "\\U00016b57", "\\U00016b58", "\\U00016b59">>,
      <<"\\U0001d7ce", "\\U0001d7cf", "\\U0001d7d0", "\\U0001d7d1", "\\U0001d7d2", "\\U0001d7d3", "\\U0001d7d4", "\\U0001d7d5", "\\U0001d7d6", "\\U0001d7d7">>,
      <<"\\U0001d7d8", "\\U0001d7d9", "\\U0001d7da", "\\U0001d7db", "\\U0001d7dc", "\\U0001d7dd", "\\U0001d7de", "\\U0001d7df", "\\U0001d7e0", "\\U0001d7e1">>,
      <<"\\U0001d7e2", "\\U0001d7e3", "\\U0001d7e4", "\\U0001d7e5", "\\U0001d7e6", "\\U0001d7e7", "\\U0001d7e8", "\\U0001d7e9", "\\U0001d7ea", "\\U0001d7eb">>,
      <<"\\U0001d7ec", "\\U0001d7ed", "\\U0001d7ee", "\\U0001d7ef", "\\U0001d7f0", "\\U0001d7f1", "\\U0001d7f2", "\\U0001d7f3", "\\U0001d7f4", "\\U0001d7f5">>,
      <<"\\U0001d7f6", "\\U0001d7f7", "\\U0001d7f8", "\\U0001d7f9", "\\U0001d7fa", "\\U0001d7fb", "\\U0001d7fc", "\\U0001d7fd", "\\U0001d7fe", "\\U0001d7ff">>,
      <<"\\U0001e140", "\\U0001e141", "\\U0001e142", "\\U0001e143", "\\U0001e144", "\\U0001e145", "\\U0001e146", "\\U0001e147", "\\U0001e148", "\\U0001e149">>,
      <<"\\U0001e2f0", "\\U0001e2f1", "\\U0001e2f2", "\\U0001e2f3", "\\U0001e2f4", "\\U0001e2f5", "\\U0001e2f6", "\\U0001e2f7", "\\U0001e2f8", "\\U0001e2f9">>,
      <<"\\U0001e950", "\\U0001e951", "\\U0001e952", "\\U0001e953", "\\U0001e954", "\\U0001e955", "\\U0001e956", "\\U0001e957", "\\U0001e958", "\\U0001e959">>,
      <<"\\U0001fbf0", "\\U0001fbf1", "\\U0001fbf2", "\\U0001fbf3", "\\U0001fbf4", "\\U0001fbf5", "\\U0001fbf6", "\\U0001fbf7", "\\U0001fbf8", "\\U0001fbf9">> >>

DecimalDigits == {DecimalRuns[r][i] : r \in 1..Len(DecimalRuns), i \in 1..10}

\* the value of each decimal digit
DecimalValue ==
    [c \in DecimalDigits |->
        (CHOOSE i \in 1..10 : \E r \in 1..Len(DecimalRuns) : DecimalRuns[r][i] = c) - 1]

\* \d of one character
IsDigit(c) == c \in DecimalDigits

DigitVal(c) == DecimalValue[c]

\* one decimal digit of strftime
DigitChar(n) ==
    CASE n = 0 -> "0" [] n = 1 -> "1" [] n = 2 -> "2" [] n = 3 -> "3"
      [] n = 4 -> "4" [] n = 5 -> "5" [] n = 6 -> "6" [] n = 7 -> "7"
      [] n = 8 -> "8" [] n = 9 -> "9"

\* re.IGNORECASE: the letter of the pattern that a character of the text is
\* matched against. The pattern's letters are lower-case ASCII: each matches
\* itself, its upper-case letter, and the characters Unicode folds to it:
\* U+0130 and U+0131 to "i", U+212A (KELVIN SIGN) to "k", U+017F (LONG S) to
\* "s". Any other character matches only itself.
Lower(c) ==
    CASE c = "A" -> "a" [] c = "B" -> "b" [] c = "C" -> "c" [] c = "D" -> "d"
      [] c = "E" -> "e" [] c = "F" -> "f" [] c = "G" -> "g" [] c = "H" -> "h"
      [] c = "I" -> "i" [] c = "J" -> "j" [] c = "K" -> "k" [] c = "L" -> "l"
      [] c = "M" -> "m" [] c = "N" -> "n" [] c = "O" -> "o" [] c = "P" -> "p"
      [] c = "Q" -> "q" [] c = "R" -> "r" [] c = "S" -> "s" [] c = "T" -> "t"
      [] c = "U" -> "u" [] c = "V" -> "v" [] c = "W" -> "w" [] c = "X" -> "x"
      [] c = "Y" -> "y" [] c = "Z" -> "z"
      [] c = "\\u0130" -> "i" [] c = "\\u0131" -> "i"
      [] c = "\\u212a" -> "k" [] c = "\\u017f" -> "s"
      [] OTHER -> c

\* str.strip(): drop the leading and the trailing whitespace
Strip(s) ==
    LET keep == {i \in 1..Len(s) : ~IsSpace(s[i])}
    IN  IF keep = {} THEN <<>> ELSE SubSeq(s, Min(keep), Max(keep))

\* str.startswith(prefix), case-sensitive
StartsWith(s, prefix) ==
    /\ Len(prefix) <= Len(s)
    /\ \A i \in 1..Len(prefix) : s[i] = prefix[i]

\* str.replace(old, ''): every non-overlapping occurrence of old, left to right
RECURSIVE RemoveAll(_, _)
RemoveAll(s, old) ==
    IF s = <<>> THEN <<>>
    ELSE IF StartsWith(s, old) THEN RemoveAll(SubSeq(s, Len(old) + 1, Len(s)), old)
    ELSE <<Head(s)>> \o RemoveAll(Tail(s), old)

\* the value of a run of decimal digits that starts with no zero
RECURSIVE SignificantValue(_)
SignificantValue(s) ==
    IF s = <<>> THEN 0
    ELSE SignificantValue(SubSeq(s, 1, Len(s) - 1)) * 10 + DigitVal(s[Len(s)])

\* the value of a non-empty run of decimal digits: that of the digits from
\* the first one that is not a zero
DigitsValue(s) ==
    LET significant == {i \in 1..Len(s) : DigitVal(s[i]) # 0}
    IN  IF significant = {} THEN 0
        ELSE SignificantValue(SubSeq(s, Min(significant), Len(s)))

\* what int() removes around the number
IntStrip(s) ==
    LET keep == {i \in 1..Len(s) : ~IsIntSpace(s[i])}
    IN  IF keep = {} THEN <<>> ELSE SubSeq(s, Min(keep), Max(keep))

\* d is decimal digits with single underscores between them
IsIntLiteral(d) ==
    /\ d # <<>>
    /\ IsDigit(d[1])
    /\ IsDigit(d[Len(d)])
    /\ \A i \in 1..Len(d) :
          IsDigit(d[i]) \/ (d[i] = "_" /\ i > 1 /\ IsDigit(d[i - 1]))

\* sys.int_info.default_max_str_digits: the number of digits int() converts
\* at most
MaxStrDigits == 4300

\* int(x) for a str x: whitespace around the number and one sign before it
\* are accepted, the rest must be decimal digits, with single underscores
\* allowed between digits, and at most MaxStrDigits digits, leading zeros
\* counted; anything else raises ValueError. A Python int is unbounded; the
\* value is computed in the integers of TLC.
PyInt(s) ==
    LET t == IntStrip(s)
        signed == t # <<>> /\ t[1] \in {"+", "-"}
        d == IF signed THEN Tail(t) ELSE t
    IN  IF ~IsIntLiteral(d) \/ Len(SelectSeq(d, IsDigit)) > MaxStrDigits
        THEN [raise |-> "ValueError"]
        ELSE [value |-> IF signed /\ t[1] = "-"
                        THEN 0 - DigitsValue(SelectSeq(d, IsDigit))
                        ELSE DigitsValue(SelectSeq(d, IsDigit))]

(***************************************************************************)
(* parse_delivery_transcription: the regular expression                    *)
(***************************************************************************)

kw_client == <<"c", "l", "i", "e", "n", "t">>
kw_delivered == <<"d", "e", "l", "i", "v", "e", "r", "e", "d">>
kw_price == <<"p", "r", "i", "c", "e">>
kw_location == <<"l", "o", "c", "a", "t", "i", "o", "n">>
kw_notes == <<"n", "o", "t", "e", "s">>
kw_at == <<"a", "t">>

\* (?P<feed_type>crumbs|pellets|day old chicks|layer mash), in the order tried
FeedTypes ==
    << <<"c", "r", "u", "m", "b", "s">>,
       <<"p", "e", "l", "l", "e", "t", "s">>,
       <<"d", "a", "y", " ", "o", "l", "d", " ", "c", "h", "i", "c", "k", "s">>,
       <<"l", "a", "y", "e", "r", " ", "m", "a", "s", "h">> >>

\* (?P<location>matangi|kitengela|mihang'o), in the order tried
Locations ==
    << <<"m", "a", "t", "a", "n", "g", "i">>,
       <<"k", "i", "t", "e", "n", "g", "e", "l", "a">>,
       <<"m", "i", "h", "a", "n", "g", "'", "o">> >>

\* a literal of the pattern at position p of s, under re.IGNORECASE
LitAt(s, p, lit) ==
    /\ p >= 1
    /\ p + Len(lit) - 1 <= Len(s)
    /\ \A i \in 1..Len(lit) : Lower(s[p + i - 1]) = lit[i]

\* the position after the longest run of whitespace that starts at p
SpaceRunEnd(s, p) ==
    LET stops == {i \in p..Len(s) : ~IsSpace(s[i])}
    IN  IF stops = {} THEN Len(s) + 1 ELSE Min(stops)

\* the position after the longest run of digits that starts at p
DigitRunEnd(s, p) ==
    LET stops == {i \in p..Len(s) : ~IsDigit(s[i])}
    IN  IF stops = {} THEN Len(s) + 1 ELSE Min(stops)

\* keyword\s+ at q: the position after it, or 0. \s+ is greedy and what
\* follows it in the pattern never matches whitespace, so only the longest
\* run can lead to a match.
KeywordAt(s, q, kw) ==
    IF LitAt(s, q, kw) /\ q + Len(kw) <= Len(s) /\ IsSpace(s[q + Len(kw)])
    THEN SpaceRunEnd(s, q + Len(kw))
    ELSE 0

\* The matcher below follows the backtracking order of re. Each stage gives
\* the set of its matches in that order's first success: empty when the rest
\* of the pattern cannot match, one record of the named groups otherwise.
\* A stage ranks its choices with a key, the higher the earlier tried.
Keyed(key, matches) == {<<key, m>> : m \in matches}
FirstTried(keyed) == {x[2] : x \in {x \in keyed : \A y \in keyed : y[1] <= x[1]}}

\* .* before a keyword is greedy: the engine tries the rightmost position
\* first and moves left while the rest of the pattern fails. Only a position
\* where the keyword and a whitespace stand can match.
KeywordPositions(s, p, kw) == {q \in p..Len(s) : KeywordAt(s, q, kw) # 0}

\* the alternatives of alts that match at p, by index
AltsAt(s, p, alts) == {i \in 1..Len(alts) : LitAt(s, p, alts[i])}

\* (?P<notes>.*) after the rightmost of the positions qs of "notes\s+": the
\* rest of the text. None when there is no such position: the optional group
\* is skipped.
NotesAt(s, qs) ==
    IF qs = {} THEN PyNone
    ELSE Some(SubSeq(s, KeywordAt(s, Max(qs), kw_notes), Len(s)))

\* (?:.*notes\s+(?P<notes>.*))? from p
NotesGroup(s, p) == NotesAt(s, KeywordPositions(s, p, kw_notes))

\* (?P<location>...)\s* at r, then the optional notes group, which cannot
\* fail: \s* keeps its longest run, and the first alternative that matches
\* is the one used.
LocationAt(s, r) ==
    {[location |-> SubSeq(s, r, r + Len(Locations[i]) - 1),
      notes |-> NotesGroup(s, SpaceRunEnd(s, r + Len(Locations[i])))] :
        i \in FirstTried({<<0 - a, a>> : a \in AltsAt(s, r, Locations)})}

\* (?:.*location\s+(?P<location>...)\s*) from p
LocationStage(s, p) ==
    FirstTried(UNION {Keyed(q, LocationAt(s, KeywordAt(s, q, kw_location))) :
                        q \in KeywordPositions(s, p, kw_location)})

\* (?P<price>\d+) at r, then the rest: \d+ is greedy and gives digits back
\* one at a time, down to one digit, while the rest of the pattern fails.
PriceAt(s, r) ==
    FirstTried(UNION {Keyed(k, {[price |-> SubSeq(s, r, k - 1), rest |-> m] :
                                  m \in LocationStage(s, k)}) :
                        k \in (r + 1)..DigitRunEnd(s, r)})

\* .*price\s+(?P<price>\d+) from p, then the rest
PriceStage(s, p) ==
    FirstTried(UNION {Keyed(q, PriceAt(s, KeywordAt(s, q, kw_price))) :
                        q \in KeywordPositions(s, p, kw_price)})

\* (?:\s+at)? from p: where the rest of the pattern can start, ranked: after
\* "\s+at" first, at p when the rest fails there or the group does not match
AfterAt(s, p) ==
    {<<1, p>>} \cup
    (IF p <= Len(s) /\ IsSpace(s[p]) /\ LitAt(s, SpaceRunEnd(s, p), kw_at)
     THEN {<<2, SpaceRunEnd(s, p) + Len(kw_at)>>} ELSE {})

\* (?:\s+at)? from p, then the rest
AfterFeed(s, p) ==
    FirstTried(UNION {Keyed(x[1], PriceStage(s, x[2])) : x \in AfterAt(s, p)})

\* (?P<feed_type>...) at p, then the rest: the alternatives are tried in the
\* pattern's order, the next one when the rest fails after this one
FeedAt(s, p) ==
    FirstTried(UNION {Keyed(0 - i, {[feed_type |-> SubSeq(s, p, p + Len(FeedTypes[i]) - 1),
                                     rest |-> m] :
                                      m \in AfterFeed(s, p + Len(FeedTypes[i]))}) :
                        i \in AltsAt(s, p, FeedTypes)})

\* (?P<quantity>\d+)\s+(feed) at r, then the rest: \d+ gives digits back
\* while the rest fails, and \s+ needs a whitespace after the digits kept
QuantityAt(s, r) ==
    FirstTried(UNION {Keyed(k, {[quantity |-> SubSeq(s, r, k - 1), rest |-> m] :
                                  m \in FeedAt(s, SpaceRunEnd(s, k))}) :
                        k \in {k \in (r + 1)..DigitRunEnd(s, r) :
                                 k <= Len(s) /\ IsSpace(s[k])}})

\* .*delivered\s+(?P<quantity>\d+)\s+(feed)(?:\s+at)? from p, then the rest
DeliveredStage(s, p) ==
    FirstTried(UNION {Keyed(q, QuantityAt(s, KeywordAt(s, q, kw_delivered))) :
                        q \in KeywordPositions(s, p, kw_delivered)})

\* A faulty variant of ClientAt: any digit is taken for a client index.
\* C14_MissingClauseFails tells the two apart.
ClientAtAnyDigit(s, r) ==
    IF r <= Len(s) /\ IsDigit(s[r])
    THEN {[client_index |-> <<s[r]>>, rest |-> m] : m \in DeliveredStage(s, r + 1)}
    ELSE {}

\* (?P<client_index>[1-7]) at r, then the rest
ClientAt(s, r) ==
    IF r <= Len(s) /\ s[r] \in {"1", "2", "3", "4", "5", "6", "7"}
    THEN {[client_index |-> <<s[r]>>, rest |-> m] : m \in DeliveredStage(s, r + 1)}
    ELSE {}

\* .*client\s+(?P<client_index>[1-7]) from p, then the rest
ClientStage(s, p) ==
    FirstTried(UNION {Keyed(q, ClientAt(s, KeywordAt(s, q, kw_client))) :
                        q \in KeywordPositions(s, p, kw_client)})

\* match.groupdict() of a match c
GroupDict(c) ==
    [client_index |-> c.client_index,
     quantity |-> c.rest.quantity,
     feed_type |-> c.rest.rest.feed_type,
     price |-> c.rest.rest.rest.price,
     location |-> c.rest.rest.rest.rest.location,
     notes |-> c.rest.rest.rest.rest.notes]

\* pattern.search(transcription): the pattern starts with .* under re.DOTALL,
\* so a match, when there is one, starts at the first character. The set of
\* the groupdict of the match: empty when there is none.
PatternSearch(s) == {GroupDict(c) : c \in ClientStage(s, 1)}

\* A faulty variant of Normalize: the text fields are not stripped.
\* C15_FieldsOfClauses tells the two apart.
NormalizeNoStrip(groups) ==
    LET quantity == PyInt(groups.quantity)
        price == PyInt(groups.price)
    IN  IF "raise" \in DOMAIN quantity \/ "raise" \in DOMAIN price
        THEN [kind |-> "None"]
        ELSE IF IsNone(groups.notes) THEN [kind |-> "raise", exc |-> "AttributeError"]
        ELSE [kind |-> "data",
              data |-> [client_index |-> groups.client_index,
                        quantity |-> quantity.value,
                        feed_type |-> groups.feed_type,
                        price |-> price.value,
                        location |-> groups.location,
                        notes |-> groups.notes.some,
                        debt |-> 0,
                        overpaid |-> 0]]

\* lines 129-145: the record built from the groups. int() of quantity or of
\* price raises ValueError for a run of more than MaxStrDigits digits, and
\* lines 137-138 return None. data.get('notes', 'N/A') returns the group's
\* value, which is None when the notes clause is absent (the key is present
\* in groupdict), and None.strip() at line 143 raises AttributeError.
Normalize(groups) ==
    LET quantity == PyInt(groups.quantity)
        price == PyInt(groups.price)
    IN  IF "raise" \in DOMAIN quantity \/ "raise" \in DOMAIN price
        THEN [kind |-> "None"]
        ELSE IF IsNone(groups.notes) THEN [kind |-> "raise", exc |-> "AttributeError"]
        ELSE [kind |-> "data",
              data |-> [client_index |-> Strip(groups.client_index),
                        quantity |-> quantity.value,
                        feed_type |-> Strip(groups.feed_type),
                        price |-> price.value,
                        location |-> Strip(groups.location),
                        notes |-> Strip(groups.notes.some),
                        debt |-> 0,
                        overpaid |-> 0]]

\* A faulty variant of Outcome: a best-effort record of defaults when the
\* pattern does not match. C8_ParseFailure tells the two apart.
OutcomeBestEffort(matches) ==
    IF matches = {}
    THEN [kind |-> "data",
          data |-> [client_index |-> <<"N", "/", "A">>, quantity |-> 0,
                    feed_type |-> <<"N", "/", "A">>, price |-> 0,
                    location |-> <<"N", "/", "A">>, notes |-> <<"N", "/", "A">>,
                    debt |-> 0, overpaid |-> 0]]
    ELSE Normalize(CHOOSE g \in matches : TRUE)

\* the outcome for the set of matches: None when the pattern does not match
\* (line 146), and what lines 129-145 give when it does
Outcome(matches) ==
    IF matches = {} THEN [kind |-> "None"] ELSE Normalize(CHOOSE g \in matches : TRUE)

\* parse_delivery_transcription(transcription)
parse_delivery_transcription(transcription) == Outcome(PatternSearch(transcription))

(***************************************************************************)
(* calculate_reminders: calendar dates                                     *)
(***************************************************************************)

GUBORO_DAYS == 14
LASOTA_DAYS == 21

IsLeap(y) == (y % 4 = 0 /\ y % 100 # 0) \/ y % 400 = 0

\* A faulty variant of DaysInMonth: February has 28 days in every year.
\* C17_ReminderDates tells the two apart.
DaysInMonthNoLeap(y, m) ==
    IF m = 2 THEN 28 ELSE IF m \in {4, 6, 9, 11} THEN 30 ELSE 31

DaysInMonth(y, m) ==
    IF m = 2 THEN (IF IsLeap(y) THEN 29 ELSE 28)
    ELSE IF m \in {4, 6, 9, 11} THEN 30 ELSE 31

\* datetime.MAXYEAR: 9999-12-31 is the last date a datetime holds
MAXYEAR == 9999

\* date + timedelta(days=1): the next day, or OverflowError ("date value out
\* of range") past the last date
NextDay(date) ==
    IF date.d < DaysInMonth(date.y, date.m) THEN [date EXCEPT !.d = date.d + 1]
    ELSE IF date.m < 12 THEN [y |-> date.y, m |-> date.m + 1, d |-> 1]
    ELSE IF date.y < MAXYEAR THEN [y |-> date.y + 1, m |-> 1, d |-> 1]
    ELSE [raise |-> "OverflowError"]

\* date + timedelta(days=n): the date n days on, or OverflowError when it is
\* past the last date
RECURSIVE AddDays(_, _)
AddDays(date, n) ==
    IF n = 0 \/ "raise" \in DOMAIN date THEN date ELSE AddDays(NextDay(date), n - 1)

\* strftime('%m') and strftime('%d'): the decimal digits of n, zero-padded
\* to width w
RECURSIVE ZeroPad(_, _)
ZeroPad(n, w) ==
    IF w = 0 THEN <<>> ELSE ZeroPad(n \div 10, w - 1) \o <<DigitChar(n % 10)>>

\* strftime('%Y') of the C library (glibc): the decimal digits of the year
\* with no padding, "999" for the year 999
RECURSIVE YearText(_)
YearText(y) ==
    IF y < 10 THEN <<DigitChar(y)>> ELSE YearText(y \div 10) \o <<DigitChar(y % 10)>>

\* date.strftime('%Y-%m-%d')
FormatDate(date) ==
    YearText(date.y) \o <<"-">> \o ZeroPad(date.m, 2) \o <<"-">> \o ZeroPad(date.d, 2)

LabelGuboro == <<"G", "u", "b", "o", "r", "o", ":", " ">>
LabelLaSota == <<";", " ", "L", "a", " ", "S", "o", "t", "a", ":", " ">>

\* calculate_reminders(delivery_date): the text returned, or the exception
\* one of the two additions raises
calculate_reminders(delivery_date) ==
    LET guboro_date == AddDays(delivery_date, GUBORO_DAYS)
        lasota_date == AddDays(delivery_date, LASOTA_DAYS)
    IN  IF "raise" \in DOMAIN guboro_date THEN guboro_date
        ELSE IF "raise" \in DOMAIN lasota_date THEN lasota_date
        ELSE [value |-> LabelGuboro \o FormatDate(guboro_date)
                          \o LabelLaSota \o FormatDate(lasota_date)]

(***************************************************************************)
(* Literals of whatsapp_reply and transcribe_audio_file                    *)
(***************************************************************************)

\* the 'whatsapp:' of line 220
WhatsappPrefix == <<"w", "h", "a", "t", "s", "a", "p", "p", ":">>

\* the 'audio' of line 249
AudioPrefix == <<"a", "u", "d", "i", "o">>

\* the '1' of line 225
ConfirmToken == <<"1">>

\* the "Transcription failed" of lines 180 and 284
FailedPrefix ==
    <<"T", "r", "a", "n", "s", "c", "r", "i", "p", "t", "i", "o", "n", " ",
      "f", "a", "i", "l", "e", "d">>

\* the "No transcription results found." of line 284
NoResultsText ==
    <<"N", "o", " ", "t", "r", "a", "n", "s", "c", "r", "i", "p", "t", "i",
      "o", "n", " ", "r", "e", "s", "u", "l", "t", "s", " ", "f", "o", "u",
      "n", "d", ".">>

\* The replies (resp.message(...)), by their text; {0} stands for the
\* interpolated transcript, carried beside the text. "\\u2705" is the one
\* character U+2705 (WHITE HEAVY CHECK MARK), "\\u274c" the one character
\* U+274C (CROSS MARK).
MSG_LOGGED == "\\u2705 Database filled! Delivery details have been successfully logged to the Google Sheet, and reminders calculated."
MSG_LOG_FAILED == "\\u274c ERROR: Failed to log data to the Google Sheet. Ensure your sheet has the tab name 'Sheet1' (or change the variable) and the service account has edit access."
MSG_NOT_PARSED == "\\u274c ERROR: The transcription could not be parsed into fields. Please ensure the voice note follows the expected format. Transcription received: {0}"
MSG_NOTHING_PENDING == "I didn't find any pending transcription to confirm. Please send a voice note first."
MSG_DOWNLOAD_ERROR == "\\u274c ERROR: Could not download the voice message. Check Twilio settings and ensure your credentials are correct."
MSG_CONFIG_ERROR == "\\u274c CONFIGURATION ERROR: Twilio credentials not found. Check environment variables."
MSG_STT_UNAVAILABLE == "Sorry, the transcription service is currently unavailable due to a configuration error. Please check server logs."
MSG_HEARD == "I heard: **{0}**\n\nTo confirm this transcription and fill the database, **REPLY WITH 1**."
MSG_NOT_TRANSCRIBED == "Sorry, I could not transcribe the voice message. Ensure the audio is clear and you have properly set up the Google STT credentials."
MSG_WELCOME == "Welcome! Please send a voice note with the delivery details, or reply '1' to confirm a pending transcription."
MSG_FATAL == "\\u274c FATAL ERROR: An unexpected server error occurred. The error has been logged for debugging. Please check your Render logs for the full Python traceback."

STATUS_OK == 200
STATUS_FATAL == 500

\* A faulty variant of Response: the status argument is dropped.
\* C10_FaultsBecomeReplies tells the two apart.
ResponseStatusDropped(text, arg, status) == [text |-> text, arg |-> arg, status |-> 200]

\* Response(str(resp), mimetype='application/xml'[, status=...])
Response(text, arg, status) == [text |-> text, arg |-> arg, status |-> status]

(***************************************************************************)
(* Inputs: the requests the transport delivers, what the speech service    *)
(* hears, and the dates of datetime.now()                                  *)
(***************************************************************************)

Sender1 == <<"w", "h", "a", "t", "s", "a", "p", "p", ":", "+", "1">>
Sender2 == <<"w", "h", "a", "t", "s", "a", "p", "p", ":", "+", "2">>
BodyOne == <<" ", "1", " ">>
BodyHi == <<"h", "i">>
CtAudio == <<"a", "u", "d", "i", "o", "/", "o", "g", "g">>
CtImage == <<"i", "m", "a", "g", "e", "/", "p", "n", "g">>

\* the transcript of the end-to-end example: the five clauses
TextNotes ==
    <<"c", "l", "i", "e", "n", "t", " ", "3", " ", "d", "e", "l", "i", "v",
      "e", "r", "e", "d", " ", "5", "0", " ", "p", "e", "l", "l", "e", "t",
      "s", " ", "a", "t", " ", "p", "r", "i", "c", "e", " ", "2", "0", "0",
      "0", " ", "l", "o", "c", "a", "t", "i", "o", "n", " ", "m", "a", "t",
      "a", "n", "g", "i", " ", "n", "o", "t", "e", "s", " ", "n", "o", "n",
      "e">>

\* a transcript with no notes clause
TextNoNotes ==
    <<"c", "l", "i", "e", "n", "t", " ", "5", " ", "d", "e", "l", "i", "v",
      "e", "r", "e", "d", " ", "7", " ", "c", "r", "u", "m", "b", "s", " ",
      "p", "r", "i", "c", "e", " ", "9", "0", " ", "l", "o", "c", "a", "t",
      "i", "o", "n", " ", "k", "i", "t", "e", "n", "g", "e", "l", "a">>

\* a transcript with no location clause
TextNoLocation ==
    <<"c", "l", "i", "e", "n", "t", " ", "3", " ", "d", "e", "l", "i", "v",
      "e", "r", "e", "d", " ", "5", "0", " ", "p", "e", "l", "l", "e", "t",
      "s", " ", "a", "t", " ", "p", "r", "i", "c", "e", " ", "2", "0", "0",
      "0">>

\* request.values of one inbound message; an absent key is None
Request(from, body, num, ctype) ==
    [From |-> from, Body |-> body, NumMedia |-> num, MediaContentType0 |-> ctype]

\* From either sender: the confirmation and a voice note. From the first
\* sender also: a voice note whose body is the token, a text, a picture, and
\* a request whose NumMedia is not a number.
Requests ==
    { Request(Some(Sender1), Some(BodyOne), PyNone, PyNone),
      Request(Some(Sender1), PyNone, Some(<<"1">>), Some(CtAudio)),
      Request(Some(Sender2), Some(BodyOne), PyNone, PyNone),
      Request(Some(Sender2), PyNone, Some(<<"1">>), Some(CtAudio)),
      Request(Some(Sender1), Some(ConfirmToken), Some(<<"1">>), Some(CtAudio)),
      Request(Some(Sender1), Some(BodyHi), Some(<<"0">>), PyNone),
      Request(Some(Sender1), Some(BodyHi), Some(<<"1">>), Some(CtImage)),
      Request(Some(Sender1), Some(BodyHi), Some(<<"x">>), PyNone) }

\* what the speech service can return for a voice note
SpokenTexts == {TextNotes, TextNoNotes, TextNoLocation, NoResultsText}

\* the dates datetime.now() can fall on
Dates == {[y |-> 2024, m |-> 3, d |-> 1], [y |-> 2024, m |-> 12, d |-> 20]}

\* the threads that serve requests concurrently
Threads == {1, 2}

\* the number of requests of a run
MaxRequests == 3

(***************************************************************************)
(* The state                                                               *)
(***************************************************************************)

VARIABLES
    PENDING_TRANSCRIPTIONS, \* the dict of line 40: sender -> transcript
    sheet_rows,             \* the rows SHEET.append_row has appended
    env,                    \* the globals set at start-up: credentials, STT_CLIENT, SHEET
    th,                     \* per request thread: the locals of whatsapp_reply
    nreq,                   \* history: the number of requests received
    puts,                   \* history: the <<sender, transcript>> pairs ever stored
    nputs,                  \* history: per sender, the number of transcripts stored
    echoed,                 \* history: the <<sender, transcript>> pairs echoed in a reply
    last,                   \* history: per sender, the last store operation
    calls,                  \* history: the calls of log_to_google_sheet
    faulted                 \* history: some request has ended in the except clause

vars == <<PENDING_TRANSCRIPTIONS, sheet_rows, env, th, nreq, puts, nputs, echoed, last, calls, faulted>>

\* request.values.get(key, default)
Get(values, key, default) == IF IsNone(values[key]) THEN default ELSE values[key].some

\* Faulty variants of the dict operations: a membership test that always
\* succeeds, a store that keeps an entry already there (setdefault), a read
\* that leaves the entry in place (get). C5_NothingPending, C4_Overwrite and
\* C3_PutTakeTake tell them from the operations of the code.
DictHasAlways(d, k) == TRUE
DictSetDefault(d, k, v) == [x \in (DOMAIN d) \cup {k} |-> IF x \in DOMAIN d THEN d[x] ELSE v]
DictPopKeep(d, k) == d

\* k in d
DictHas(d, k) == k \in DOMAIN d

\* d[k] = v
DictSet(d, k, v) == [x \in (DOMAIN d) \cup {k} |-> IF x = k THEN v ELSE d[x]]

\* d after d.pop(k)
DictPop(d, k) == [x \in (DOMAIN d) \ {k} |-> d[x]]

\* line 220: request.values.get('From', '').replace('whatsapp:', '')
FromNumber(values) == RemoveAll(Get(values, "From", <<>>), WhatsappPrefix)

\* line 221: request.values.get('Body', '').strip()
IncomingText(values) == Strip(Get(values, "Body", <<>>))

\* line 222: int(request.values.get('NumMedia', 0))
NumMedia(values) ==
    IF IsNone(values.NumMedia) THEN [value |-> 0] ELSE PyInt(values.NumMedia.some)

\* A faulty variant of IsConfirmation: any text confirms.
\* C1_PersistOnlyOnConfirmation tells the two apart.
IsConfirmationAnyText(incoming_text) == incoming_text # <<>>

\* line 225
IsConfirmation(incoming_text) == incoming_text = ConfirmToken

\* A faulty variant of IsVoiceNote: the media type is not looked at.
\* C12_OtherMessage tells the two apart.
IsVoiceNoteAnyMedia(values, num_media) == num_media > 0

\* line 249: num_media > 0 and MediaContentType0 starts with 'audio'
IsVoiceNote(values, num_media) ==
    num_media > 0 /\ StartsWith(Get(values, "MediaContentType0", <<>>), AudioPrefix)

\* A faulty variant of IsTranscript: the failure markers are not looked at.
\* C6_FailedVoiceNoteKeepsStore tells the two apart.
IsTranscriptNotEmpty(transcribed_text) == transcribed_text # <<>>

\* line 284: the transcript is kept when it is not empty and not a failure marker
IsTranscript(transcribed_text) ==
    /\ transcribed_text # <<>>
    /\ ~StartsWith(transcribed_text, FailedPrefix)
    /\ transcribed_text # NoResultsText

\* lines 232-234: the record stamped with the date and the sender
StampDate(data, from_number, delivery_date) ==
    [client_index |-> data.client_index, quantity |-> data.quantity,
     feed_type |-> data.feed_type, price |-> data.price,
     location |-> data.location, notes |-> data.notes,
     debt |-> data.debt, overpaid |-> data.overpaid,
     date |-> FormatDate(delivery_date),
     phone_number |-> from_number]

\* lines 232-235: the record stamped with the date, the sender and the
\* reminders, when calculate_reminders has returned
Stamp(data, from_number, delivery_date) ==
    [client_index |-> data.client_index, quantity |-> data.quantity,
     feed_type |-> data.feed_type, price |-> data.price,
     location |-> data.location, notes |-> data.notes,
     debt |-> data.debt, overpaid |-> data.overpaid,
     date |-> FormatDate(delivery_date),
     phone_number |-> from_number,
     reminders |-> calculate_reminders(delivery_date).value]

\* lines 192-202: row_data
RowData(data) ==
    <<data.date, data.phone_number, data.client_index, data.quantity,
      data.feed_type, data.price, data.location, data.notes, data.reminders>>

\* the locals of a thread that handles no request
Idle ==
    [pc |-> "idle", values |-> PyNone, from_number |-> <<>>, incoming_text |-> <<>>,
     transcribed_text |-> PyNone, transcription |-> PyNone, delivery_data |-> PyNone,
     delivery_date |-> PyNone, exc |-> "", response |-> PyNone,
     \* history: the branch taken, whether line 226 found an entry, the
     \* collaborators called, whether the request came after a fault
     branch |-> "", found |-> FALSE, used |-> {}, after_fault |-> FALSE]

NoOp == [op |-> "none", text |-> <<>>]

FromNumbers == {FromNumber(r) : r \in Requests}

Init ==
    /\ PENDING_TRANSCRIPTIONS = <<>>
    /\ sheet_rows = <<>>
    /\ env \in [TWILIO : BOOLEAN, STT_CLIENT : BOOLEAN, SHEET : BOOLEAN]
    /\ th = [h \in Threads |-> Idle]
    /\ nreq = 0
    /\ puts = {}
    /\ nputs = [s \in FromNumbers |-> 0]
    /\ echoed = {}
    /\ last = [s \in FromNumbers |-> NoOp]
    /\ calls = <<>>
    /\ faulted = FALSE

Set(h, locals) == th' = [th EXCEPT ![h] = locals]

\* return Response(...): the reply of the request
Reply(h, text, arg, status) ==
    Set(h, [th[h] EXCEPT !.pc = "done", !.response = Some(Response(text, arg, status))])

\* raise: control goes to the except clause of line 304
Raise(h, exc) == Set(h, [th[h] EXCEPT !.pc = "except", !.exc = exc])

\* lines 218-225, 249, 300: a request arrives and is dispatched
Receive(h) ==
    /\ th[h].pc = "idle"
    /\ nreq < MaxRequests
    /\ \E values \in Requests :
         LET from_number == FromNumber(values)
             incoming_text == IncomingText(values)
             num_media == NumMedia(values)
             locals == [Idle EXCEPT !.values = Some(values),
                                    !.from_number = from_number,
                                    !.incoming_text = incoming_text,
                                    !.after_fault = faulted]
         IN  IF "raise" \in DOMAIN num_media
             THEN Set(h, [locals EXCEPT !.pc = "except", !.exc = num_media.raise])
             ELSE IF IsConfirmation(incoming_text)
             THEN Set(h, [locals EXCEPT !.pc = "confirm", !.branch = "confirm"])
             ELSE IF IsVoiceNote(values, num_media.value)
             THEN Set(h, [locals EXCEPT !.pc = "fetch", !.branch = "voice"])
             ELSE Set(h, [locals EXCEPT !.pc = "default", !.branch = "default"])
    /\ nreq' = nreq + 1
    /\ UNCHANGED <<PENDING_TRANSCRIPTIONS, sheet_rows, env, puts, nputs, echoed, last, calls, faulted>>

\* line 226: if from_number in PENDING_TRANSCRIPTIONS; line 244 otherwise
ConfirmCheck(h) ==
    /\ th[h].pc = "confirm"
    /\ IF DictHas(PENDING_TRANSCRIPTIONS, th[h].from_number)
       THEN Set(h, [th[h] EXCEPT !.pc = "pop", !.found = TRUE])
       ELSE Reply(h, MSG_NOTHING_PENDING, <<>>, STATUS_OK)
    /\ UNCHANGED <<PENDING_TRANSCRIPTIONS, sheet_rows, env, nreq, puts, nputs, echoed, last, calls, faulted>>

\* line 227: PENDING_TRANSCRIPTIONS.pop(from_number); KeyError when another
\* thread has removed the entry since line 226
ConfirmPop(h) ==
    /\ th[h].pc = "pop"
    /\ IF DictHas(PENDING_TRANSCRIPTIONS, th[h].from_number)
       THEN /\ Set(h, [th[h] EXCEPT !.pc = "parse",
                         !.transcription = Some(PENDING_TRANSCRIPTIONS[th[h].from_number])])
            /\ PENDING_TRANSCRIPTIONS' = DictPop(PENDING_TRANSCRIPTIONS, th[h].from_number)
            /\ last' = [last EXCEPT ![th[h].from_number] =
                          [op |-> "pop", text |-> PENDING_TRANSCRIPTIONS[th[h].from_number]]]
       ELSE /\ Raise(h, "KeyError")
            /\ UNCHANGED <<PENDING_TRANSCRIPTIONS, last>>
    /\ UNCHANGED <<sheet_rows, env, nreq, puts, nputs, echoed, calls, faulted>>

\* line 228: parse_delivery_transcription(t); the extraction of the
\* transcripts the speech service can return is computed once and looked up
ParsedSpoken == [t \in SpokenTexts |-> parse_delivery_transcription(t)]
ParseOf(t) == IF t \in SpokenTexts THEN ParsedSpoken[t] ELSE parse_delivery_transcription(t)

\* lines 228-230, 241-242: parse the transcript
ConfirmParse(h) ==
    /\ th[h].pc = "parse"
    /\ LET transcription == th[h].transcription.some
           delivery_data == ParseOf(transcription)
       IN  CASE delivery_data.kind = "raise" -> Raise(h, delivery_data.exc)
             [] delivery_data.kind = "None" ->
                  Reply(h, MSG_NOT_PARSED, transcription, STATUS_OK)
             [] delivery_data.kind = "data" ->
                  Set(h, [th[h] EXCEPT !.pc = "log",
                                       !.delivery_data = Some(delivery_data.data)])
    /\ UNCHANGED <<PENDING_TRANSCRIPTIONS, sheet_rows, env, nreq, puts, nputs, echoed, last, calls, faulted>>

\* A faulty variant of log_to_google_sheet: the failure is not reported.
\* C7_FailedPersistence tells the two apart.
LogAlwaysTrue(sheet, appended) == TRUE

\* log_to_google_sheet (185-208): False when SHEET is None, and when
\* SHEET.append_row raises; True when the row has been appended
log_to_google_sheet(sheet, appended) == sheet /\ appended

\* lines 231-240: stamp the record and log it, datetime.now() being one of
\* dates; an exception of calculate_reminders (line 235) goes to the except
\* clause before anything is logged, with the date and the sender already
\* in the record
ConfirmLogOn(h, dates) ==
    /\ th[h].pc = "log"
    /\ \E delivery_date \in dates, appended \in BOOLEAN :
         IF "raise" \in DOMAIN calculate_reminders(delivery_date)
         THEN /\ Set(h, [th[h] EXCEPT !.pc = "except",
                           !.delivery_date = Some(delivery_date),
                           !.delivery_data = Some(StampDate(th[h].delivery_data.some,
                                                            th[h].from_number, delivery_date)),
                           !.exc = calculate_reminders(delivery_date).raise])
              /\ UNCHANGED <<sheet_rows, calls>>
         ELSE LET data == Stamp(th[h].delivery_data.some, th[h].from_number, delivery_date)
                  ok == log_to_google_sheet(env.SHEET, appended)
              IN  /\ sheet_rows' = IF ok THEN Append(sheet_rows, RowData(data)) ELSE sheet_rows
                  /\ calls' = Append(calls, [values |-> th[h].values.some,
                                             transcription |-> th[h].transcription.some,
                                             data |-> data, ok |-> ok])
                  /\ Set(h, [th[h] EXCEPT !.pc = "done",
                               !.delivery_date = Some(delivery_date),
                               !.delivery_data = Some(data),
                               !.used = @ \cup {"sheet"},
                               !.response = Some(Response(IF ok THEN MSG_LOGGED ELSE MSG_LOG_FAILED,
                                                          <<>>, STATUS_OK))])
    /\ UNCHANGED <<PENDING_TRANSCRIPTIONS, env, nreq, puts, nputs, echoed, last, faulted>>

ConfirmLog(h) == ConfirmLogOn(h, Dates)

\* lines 257-263: what requests.get and raise_for_status end with: the
\* content of the audio, a RequestException, a ValueError that is not one,
\* or an exception that is neither
FetchOutcomes == {"content", "RequestException", "ValueError", "Exception"}

\* lines 251-273: download the audio; without the credentials line 255
\* raises ValueError, and the except clause of line 270 takes every
\* ValueError of the try; an exception neither except clause takes goes to
\* line 304
VoiceFetch(h) ==
    /\ th[h].pc = "fetch"
    /\ IF ~env.TWILIO
       THEN Reply(h, MSG_CONFIG_ERROR, <<>>, STATUS_OK)
       ELSE \E outcome \in FetchOutcomes :
              CASE outcome = "content" ->
                     Set(h, [th[h] EXCEPT !.pc = "stt", !.used = @ \cup {"media"}])
                [] outcome = "RequestException" ->
                     Set(h, [th[h] EXCEPT !.pc = "done", !.used = @ \cup {"media"},
                               !.response = Some(Response(MSG_DOWNLOAD_ERROR, <<>>, STATUS_OK))])
                [] outcome = "ValueError" ->
                     Set(h, [th[h] EXCEPT !.pc = "done", !.used = @ \cup {"media"},
                               !.response = Some(Response(MSG_CONFIG_ERROR, <<>>, STATUS_OK))])
                [] outcome = "Exception" ->
                     Set(h, [th[h] EXCEPT !.pc = "except", !.used = @ \cup {"media"},
                               !.exc = outcome])
    /\ UNCHANGED <<PENDING_TRANSCRIPTIONS, sheet_rows, env, nreq, puts, nputs, echoed, last, calls, faulted>>

\* transcribe_audio_file (148-180): the first transcript, "" when there are
\* no results, "Transcription failed: ..." when recognize raises
TranscribeResults == SpokenTexts \cup {<<>>, FailedPrefix \o <<":", " ", "e">>}

\* lines 275-282: transcribe the audio; without the client transcribed_text
\* is "" (line 279) and the request ends
VoiceTranscribe(h) ==
    /\ th[h].pc = "stt"
    /\ IF env.STT_CLIENT
       THEN \E transcribed_text \in TranscribeResults :
              Set(h, [th[h] EXCEPT !.pc = "store", !.used = @ \cup {"stt"},
                                   !.transcribed_text = Some(transcribed_text)])
       ELSE Set(h, [th[h] EXCEPT !.pc = "done",
                      !.transcribed_text = Some(<<>>),
                      !.response = Some(Response(MSG_STT_UNAVAILABLE, <<>>, STATUS_OK))])
    /\ UNCHANGED <<PENDING_TRANSCRIPTIONS, sheet_rows, env, nreq, puts, nputs, echoed, last, calls, faulted>>

\* lines 284-285, 292-297: keep the transcript for the sender
VoiceStore(h) ==
    /\ th[h].pc = "store"
    /\ LET transcribed_text == th[h].transcribed_text.some
           from_number == th[h].from_number
       IN  IF IsTranscript(transcribed_text)
           THEN /\ PENDING_TRANSCRIPTIONS' =
                     DictSet(PENDING_TRANSCRIPTIONS, from_number, transcribed_text)
                /\ puts' = puts \cup {<<from_number, transcribed_text>>}
                /\ nputs' = [nputs EXCEPT ![from_number] = @ + 1]
                /\ last' = [last EXCEPT ![from_number] =
                              [op |-> "put", text |-> transcribed_text]]
                /\ Set(h, [th[h] EXCEPT !.pc = "heard"])
           ELSE /\ Reply(h, MSG_NOT_TRANSCRIBED, <<>>, STATUS_OK)
                /\ UNCHANGED <<PENDING_TRANSCRIPTIONS, puts, nputs, last>>
    /\ UNCHANGED <<sheet_rows, env, nreq, echoed, calls, faulted>>

\* lines 287-291, 297: echo the transcript and ask for the confirmation
VoiceReply(h) ==
    /\ th[h].pc = "heard"
    /\ Reply(h, MSG_HEARD, th[h].transcribed_text.some, STATUS_OK)
    /\ echoed' = echoed \cup {<<th[h].from_number, th[h].transcribed_text.some>>}
    /\ UNCHANGED <<PENDING_TRANSCRIPTIONS, sheet_rows, env, nreq, puts, nputs, last, calls, faulted>>

\* lines 299-302
DefaultReply(h) ==
    /\ th[h].pc = "default"
    /\ Reply(h, MSG_WELCOME, <<>>, STATUS_OK)
    /\ UNCHANGED <<PENDING_TRANSCRIPTIONS, sheet_rows, env, nreq, puts, nputs, echoed, last, calls, faulted>>

\* lines 304-313: the except clause
HandleFault(h) ==
    /\ th[h].pc = "except"
    /\ Reply(h, MSG_FATAL, <<>>, STATUS_FATAL)
    /\ faulted' = TRUE
    /\ UNCHANGED <<PENDING_TRANSCRIPTIONS, sheet_rows, env, nreq, puts, nputs, echoed, last, calls>>

\* the response has gone out; the thread serves the next request
Return(h) ==
    /\ th[h].pc = "done"
    /\ Set(h, Idle)
    /\ UNCHANGED <<PENDING_TRANSCRIPTIONS, sheet_rows, env, nreq, puts, nputs, echoed, last, calls, faulted>>

Next ==
    \E h \in Threads :
        \/ Receive(h)
        \/ ConfirmCheck(h)
        \/ ConfirmPop(h)
        \/ ConfirmParse(h)
        \/ ConfirmLog(h)
        \/ VoiceFetch(h)
        \/ VoiceTranscribe(h)
        \/ VoiceStore(h)
        \/ VoiceReply(h)
        \/ DefaultReply(h)
        \/ HandleFault(h)
        \/ Return(h)

Spec == Init /\ [][Next]_vars

(***************************************************************************)
(* The extraction and the reminders on their own: the transcripts and the  *)
(* dates they are applied to                                               *)
(***************************************************************************)

\* client clauses with a digit of 1..7, and the digit
ClientClauses ==
    { [text |-> <<"c", "l", "i", "e", "n", "t", " ", "3">>, client_index |-> <<"3">>],
      [text |-> <<"C", "L", "I", "E", "N", "T", " ", " ", "7">>, client_index |-> <<"7">>] }

\* delivered clauses with a quantity and a feed type of the list
DeliveredClauses ==
    { [text |-> <<"d", "e", "l", "i", "v", "e", "r", "e", "d", " ", "5", "0", " ",
          "p", "e", "l", "l", "e", "t", "s", " ", "a", "t">>, quantity |-> 50, feed_type |-> <<"p", "e", "l", "l", "e", "t", "s">>],
      [text |-> <<"d", "e", "l", "i", "v", "e", "r", "e", "d", " ", "7", " ", "d",
          "a", "y", " ", "o", "l", "d", " ", "c", "h", "i", "c", "k",
          "s">>, quantity |-> 7, feed_type |-> <<"d", "a", "y", " ", "o", "l", "d", " ", "c", "h", "i", "c", "k",
          "s">>],
      [text |-> <<"D", "e", "l", "i", "v", "e", "r", "e", "d", " ", "1", "2", " ",
          "L", "a", "y", "e", "r", " ", "M", "a", "s", "h">>, quantity |-> 12, feed_type |-> <<"L", "a", "y", "e", "r", " ", "M", "a", "s", "h">>] }

\* price clauses with an integer
PriceClauses ==
    { [text |-> <<"p", "r", "i", "c", "e", " ", "2", "0", "0", "0">>, price |-> 2000],
      [text |-> <<"p", "r", "i", "c", "e", " ", "0", "9", "0">>, price |-> 90] }

\* location clauses with a site of the list
LocationClauses ==
    { [text |-> <<"l", "o", "c", "a", "t", "i", "o", "n", " ", "m", "a", "t", "a",
          "n", "g", "i">>, location |-> <<"m", "a", "t", "a", "n", "g", "i">>],
      [text |-> <<"l", "o", "c", "a", "t", "i", "o", "n", " ", "M", "i", "h", "a",
          "n", "g", "'", "o">>, location |-> <<"M", "i", "h", "a", "n", "g", "'", "o">>] }

\* notes clauses, and the notes with the surrounding whitespace trimmed
NotesClauses ==
    { [text |-> <<"n", "o", "t", "e", "s", " ", "n", "o", "n", "e">>, notes |-> <<"n", "o", "n", "e">>],
      [text |-> <<"n", "o", "t", "e", "s", " ", " ", "p", "a", "i", "d", " ", "c",
          "a", "s", "h", "", "\n">>, notes |-> <<"p", "a", "i", "d", " ", "c", "a", "s", "h">>] }

\* what a transcript can start with before the client clause
Leads ==
    { <<>>,
      <<"o", "k", " ">> }

\* the filler between two clauses
Gaps ==
    { <<" ">>,
      <<" ", "t", "h", "e", "n", "\n">> }

\* in place of the client clause: none, or one with no digit of 1..7
MissingClient ==
    { <<>>,
      <<"c", "l", "i", "e", "n", "t", " ", "8">>,
      <<"c", "l", "i", "e", "n", "t">> }

\* in place of the delivered clause: none, no quantity, or a feed type not in the list
MissingDelivered ==
    { <<>>,
      <<"d", "e", "l", "i", "v", "e", "r", "e", "d", " ", "p", "e", "l",
          "l", "e", "t", "s">>,
      <<"d", "e", "l", "i", "v", "e", "r", "e", "d", " ", "5", "0", " ",
          "m", "a", "i", "z", "e">> }

\* in place of the price clause: none, or one with no integer
MissingPrice ==
    { <<>>,
      <<"p", "r", "i", "c", "e", " ", "h", "i", "g", "h">> }

\* in place of the location clause: none, or a site not in the list
MissingLocation ==
    { <<>>,
      <<"l", "o", "c", "a", "t", "i", "o", "n", " ", "n", "a", "i", "r",
          "o", "b", "i">> }

\* the clauses of parts joined by gap
RECURSIVE JoinWith(_, _)
JoinWith(parts, gap) ==
    IF parts = <<>> THEN <<>>
    ELSE IF Len(parts) = 1 THEN parts[1]
    ELSE parts[1] \o gap \o JoinWith(Tail(parts), gap)

\* transcripts with the client, delivered, price and location clauses in
\* order and no notes clause, each with the values of its clauses
FourClauseCases ==
    {[text |-> lead \o JoinWith(<<c.text, d.text, p.text, l.text>>, gap),
      client_index |-> c.client_index, quantity |-> d.quantity,
      feed_type |-> d.feed_type, price |-> p.price, location |-> l.location] :
        lead \in Leads, gap \in Gaps, c \in ClientClauses, d \in DeliveredClauses,
        p \in PriceClauses, l \in LocationClauses}

\* transcripts with the five clauses in order, each with the values of its
\* clauses
FiveClauseCases ==
    {[text |-> k.text \o gap \o n.text,
      client_index |-> k.client_index, quantity |-> k.quantity,
      feed_type |-> k.feed_type, price |-> k.price, location |-> k.location,
      notes |-> n.notes] :
        k \in FourClauseCases, gap \in Gaps, n \in NotesClauses}

ClauseTexts(clauses) == {k.text : k \in clauses}

\* the four required clauses with one of them missing or without a valid
\* value, or with two neighbours in the other order
BrokenLists ==
    {<<c, d, p, l>> : c \in MissingClient, d \in ClauseTexts(DeliveredClauses),
                      p \in ClauseTexts(PriceClauses), l \in ClauseTexts(LocationClauses)}
    \cup
    {<<c, d, p, l>> : c \in ClauseTexts(ClientClauses), d \in MissingDelivered,
                      p \in ClauseTexts(PriceClauses), l \in ClauseTexts(LocationClauses)}
    \cup
    {<<c, d, p, l>> : c \in ClauseTexts(ClientClauses), d \in ClauseTexts(DeliveredClauses),
                      p \in MissingPrice, l \in ClauseTexts(LocationClauses)}
    \cup
    {<<c, d, p, l>> : c \in ClauseTexts(ClientClauses), d \in ClauseTexts(DeliveredClauses),
                      p \in ClauseTexts(PriceClauses), l \in MissingLocation}
    \cup
    UNION {{<<d, c, p, l>>, <<c, p, d, l>>, <<c, d, l, p>>} :
             c \in ClauseTexts(ClientClauses), d \in ClauseTexts(DeliveredClauses),
             p \in ClauseTexts(PriceClauses), l \in ClauseTexts(LocationClauses)}

\* the transcripts of BrokenLists, without and with a notes clause
BrokenTexts ==
    {JoinWith(b, <<" ">>) : b \in BrokenLists}
    \cup {JoinWith(b \o <<n>>, <<" ">>) : b \in BrokenLists, n \in ClauseTexts(NotesClauses)}

\* the transcript of the end-to-end example with one clause said twice, and
\* the values of the clauses that come first in the text
RepeatedCases ==
    {[text |-> t, client_index |-> <<"3">>, quantity |-> 50,
      feed_type |-> <<"p", "e", "l", "l", "e", "t", "s">>, price |-> 2000,
      location |-> <<"m", "a", "t", "a", "n", "g", "i">>,
      notes |-> <<"n", "o", "n", "e">>] :
        t \in { <<"c", "l", "i", "e", "n", "t", " ", "3", " ", "c", "l", "i", "e",
                  "n", "t", " ", "5", " ", "d", "e", "l", "i", "v", "e", "r",
                  "e", "d", " ", "5", "0", " ", "p", "e", "l", "l", "e", "t",
                  "s", " ", "a", "t", " ", "p", "r", "i", "c", "e", " ", "2",
                  "0", "0", "0", " ", "l", "o", "c", "a", "t", "i", "o", "n",
                  " ", "m", "a", "t", "a", "n", "g", "i", " ", "n", "o", "t",
                  "e", "s", " ", "n", "o", "n", "e">>,
                <<"c", "l", "i", "e", "n", "t", " ", "3", " ", "d", "e", "l", "i",
                  "v", "e", "r", "e", "d", " ", "5", "0", " ", "p", "e", "l",
                  "l", "e", "t", "s", " ", "a", "t", " ", "d", "e", "l", "i",
                  "v", "e", "r", "e", "d", " ", "7", " ", "c", "r", "u", "m",
                  "b", "s", " ", "p", "r", "i", "c", "e", " ", "2", "0", "0",
                  "0", " ", "l", "o", "c", "a", "t", "i", "o", "n", " ", "m",
                  "a", "t", "a", "n", "g", "i", " ", "n", "o", "t", "e", "s",
                  " ", "n", "o", "n", "e">>,
                <<"c", "l", "i", "e", "n", "t", " ", "3", " ", "d", "e", "l", "i",
                  "v", "e", "r", "e", "d", " ", "5", "0", " ", "p", "e", "l",
                  "l", "e", "t", "s", " ", "a", "t", " ", "p", "r", "i", "c",
                  "e", " ", "2", "0", "0", "0", " ", "p", "r", "i", "c", "e",
                  " ", "9", "0", " ", "l", "o", "c", "a", "t", "i", "o", "n",
                  " ", "m", "a", "t", "a", "n", "g", "i", " ", "n", "o", "t",
                  "e", "s", " ", "n", "o", "n", "e">>,
                <<"c", "l", "i", "e", "n", "t", " ", "3", " ", "d", "e", "l", "i",
                  "v", "e", "r", "e", "d", " ", "5", "0", " ", "p", "e", "l",
                  "l", "e", "t", "s", " ", "a", "t", " ", "p", "r", "i", "c",
                  "e", " ", "2", "0", "0", "0", " ", "l", "o", "c", "a", "t",
                  "i", "o", "n", " ", "m", "a", "t", "a", "n", "g", "i", " ",
                  "l", "o", "c", "a", "t", "i", "o", "n", " ", "k", "i", "t",
                  "e", "n", "g", "e", "l", "a", " ", "n", "o", "t", "e", "s",
                  " ", "n", "o", "n", "e">> }}

\* the numeral of n digits that stands for 50: zeros and then "50"
Numeral50(n) == [i \in 1..n |-> IF i = n - 1 THEN "5" ELSE "0"]

\* the transcript of the end-to-end example with a quantity of as many digits
\* as int() converts and with one digit more, each with the values of its
\* clauses
DigitLimitCases ==
    {[text |-> <<"c", "l", "i", "e", "n", "t", " ", "3", " ", "d", "e", "l", "i",
                 "v", "e", "r", "e", "d", " ">> \o Numeral50(n)
               \o <<" ", "p", "e", "l", "l", "e", "t", "s", " ", "a", "t", " ",
                     "p", "r", "i", "c", "e", " ", "2", "0", "0", "0", " ",
                     "l", "o", "c", "a", "t", "i", "o", "n", " ",
                     "m", "a", "t", "a", "n", "g", "i", " ",
                     "n", "o", "t", "e", "s", " ", "n", "o", "n", "e">>,
      digits |-> n,
      client_index |-> <<"3">>, quantity |-> 50,
      feed_type |-> <<"p", "e", "l", "l", "e", "t", "s">>, price |-> 2000,
      location |-> <<"m", "a", "t", "a", "n", "g", "i">>,
      notes |-> <<"n", "o", "n", "e">>] :
        n \in {MaxStrDigits, MaxStrDigits + 1}}

\* the transcripts the extraction is applied to
ParseTexts ==
    {k.text : k \in FourClauseCases \cup FiveClauseCases \cup RepeatedCases
                    \cup DigitLimitCases}
    \cup BrokenTexts

\* the days of 2023 and of the leap year 2024, the end of the year 1999,
\* the Februaries of 2000 and of 2100, the first month of the year 1, the
\* last month of the years 9 and 999, and the last month there is
Calendar ==
    {date \in [y : {2023, 2024}, m : 1..12, d : 1..31] :
        date.d <= DaysInMonth(date.y, date.m)}
    \cup [y : {1999}, m : {12}, d : 1..31]
    \cup [y : {2000}, m : {2}, d : 1..29]
    \cup [y : {2100}, m : {2}, d : 1..28]
    \cup [y : {1}, m : {1}, d : 1..31]
    \cup [y : {9, 999, MAXYEAR}, m : {12}, d : 1..31]

\* the locals of a confirmation of the first sender that has taken the
\* transcript at line 227
AfterTake(transcription) ==
    [Idle EXCEPT !.pc = "parse",
                 !.values = Some(Request(Some(Sender1), Some(BodyOne), PyNone, PyNone)),
                 !.from_number = FromNumber(Request(Some(Sender1), Some(BodyOne), PyNone, PyNone)),
                 !.incoming_text = IncomingText(Request(Some(Sender1), Some(BodyOne), PyNone, PyNone)),
                 !.transcription = Some(transcription),
                 !.branch = "confirm",
                 !.found = TRUE]

\* the state when a voice note of the first sender has been stored and
\* echoed and the sender's confirmation has taken it, on thread `locals`
\* stands for
TakenState(transcription, locals) ==
    /\ PENDING_TRANSCRIPTIONS = <<>>
    /\ sheet_rows = <<>>
    /\ env \in [TWILIO : {TRUE}, STT_CLIENT : {TRUE}, SHEET : BOOLEAN]
    /\ th = [h \in Threads |-> IF h = Min(Threads) THEN locals ELSE Idle]
    /\ nreq = 2
    /\ puts = {<<locals.from_number, transcription>>}
    /\ nputs = [s \in FromNumbers |-> IF s = locals.from_number THEN 1 ELSE 0]
    /\ echoed = {<<locals.from_number, transcription>>}
    /\ last = [s \in FromNumbers |->
                 IF s = locals.from_number
                 THEN [op |-> "pop", text |-> transcription] ELSE NoOp]
    /\ calls = <<>>
    /\ faulted = FALSE

\* parse_delivery_transcription on its own: a confirmation has taken one of
\* ParseTexts and goes on from line 228
ParseInit == \E transcription \in ParseTexts : TakenState(transcription, AfterTake(transcription))

ParseNext ==
    \E h \in Threads :
        \/ ConfirmParse(h)
        \/ ConfirmLog(h)
        \/ HandleFault(h)
        \/ Return(h)

ParseSpec == ParseInit /\ [][ParseNext]_vars

\* calculate_reminders on its own: a confirmation has parsed the transcript
\* of the end-to-end example and goes on from line 231 on a day of Calendar
ReminderInit ==
    TakenState(TextNotes,
               [AfterTake(TextNotes) EXCEPT
                    !.pc = "log",
                    !.delivery_data = Some(parse_delivery_transcription(TextNotes).data)])

RemindLog(h) == ConfirmLogOn(h, Calendar)

ReminderNext ==
    \E h \in Threads :
        \/ RemindLog(h)
        \/ HandleFault(h)
        \/ Return(h)

ReminderSpec == ReminderInit /\ [][ReminderNext]_vars

(***************************************************************************)
(* Properties                                                              *)
(***************************************************************************)

Pending == PENDING_TRANSCRIPTIONS

\* the step changes the locals of thread h: every action is a step of one thread
Stepped(h) == th'[h] # th[h]

NothingPendingReply == Some([text |-> MSG_NOTHING_PENDING, arg |-> <<>>, status |-> 200])

\* the transcripts of SpokenTexts the pattern does not match; Unmatched(t) is
\* PatternSearch(t) = {} for every t
UnmatchedSpoken == {t \in SpokenTexts : PatternSearch(t) = {}}
Unmatched(t) == IF t \in SpokenTexts THEN t \in UnmatchedSpoken ELSE PatternSearch(t) = {}

\* C1: log_to_google_sheet is called only by a step at line 236 of a request
\* whose stripped body is "1", with the transcript that request took from the
\* store, a transcript that a voice note had stored for that sender; the
\* record logged is the extraction of that transcript (line 228) stamped with
\* the sender's number, and the sheet changes only by the row of that record.
\* No step of a voice-note request or of any other request calls it.
Extracted(data, parsed) ==
    /\ parsed.kind = "data"
    /\ \A f \in DOMAIN parsed.data : data[f] = parsed.data[f]

LoggedCall(h, s, c) ==
    /\ c.values = th[h].values.some
    /\ c.transcription = th[h].transcription.some
    /\ <<s, c.transcription>> \in puts
    /\ \A f \in DOMAIN th[h].delivery_data.some :
          c.data[f] = th[h].delivery_data.some[f]
    /\ c.data.phone_number = s
    /\ sheet_rows' = IF c.ok THEN Append(sheet_rows, RowData(c.data)) ELSE sheet_rows

C1_Step(h) ==
    /\ (Stepped(h) /\ th'[h].pc = "log") =>
          /\ th[h].pc = "parse"
          /\ th'[h].transcription = th[h].transcription
          /\ Extracted(th'[h].delivery_data.some, ParseOf(th[h].transcription.some))
    /\ (Stepped(h) /\ (calls' # calls \/ sheet_rows' # sheet_rows)) =>
          /\ th[h].pc = "log"
          /\ th[h].branch = "confirm"
          /\ IncomingText(th[h].values.some) = <<"1">>
          /\ Len(calls') = Len(calls) + 1
          /\ \A i \in 1..Len(calls) : calls'[i] = calls[i]
          /\ LoggedCall(h, FromNumber(th[h].values.some), calls'[Len(calls')])

C1_PersistOnlyOnConfirmation == [][\A h \in Threads : C1_Step(h)]_vars

\* C1 witness: the end-to-end example has been logged for the first sender.
C1_Witness ==
    /\ Len(sheet_rows) >= 1
    /\ Len(calls) >= 1
    /\ calls[1].ok
    /\ calls[1].transcription = TextNotes
    /\ calls[1].data.phone_number = <<"+", "1">>
    /\ calls[1].data.client_index = <<"3">>
    /\ calls[1].data.quantity = 50
    /\ calls[1].data.feed_type = <<"p", "e", "l", "l", "e", "t", "s">>
    /\ calls[1].data.price = 2000
    /\ calls[1].data.location = <<"m", "a", "t", "a", "n", "g", "i">>
    /\ calls[1].data.notes = <<"n", "o", "n", "e">>

\* C2 (as claimed): taking the pending transcript is one atomic
\* check-and-remove: a confirmation that does not obtain the transcript,
\* because a concurrent confirmation of the same sender took it, ends with
\* the nothing-pending reply.
C2_AtomicTake ==
    \A h \in Threads :
        (th[h].branch = "confirm" /\ th[h].pc \in {"except", "done"}
           /\ IsNone(th[h].transcription))
        => th[h].response = NothingPendingReply

\* C3: the line-226 test of a confirmation finds the entry when the sender's
\* last store operation was a put and replies nothing-pending when it was a
\* take; the pop of line 227 returns exactly the text of the last put and
\* leaves no entry for the sender.
C3_Step(h) ==
    LET s == th[h].from_number
    IN  /\ (th[h].pc = "confirm" /\ Stepped(h)) =>
              /\ last[s].op = "put" => th'[h].pc = "pop"
              /\ last[s].op = "pop" =>
                    th'[h].pc = "done" /\ th'[h].response = NothingPendingReply
        /\ (th[h].pc = "pop" /\ th'[h].pc = "parse") =>
              /\ last[s].op = "put"
              /\ th'[h].transcription = Some(last[s].text)
              /\ s \notin DOMAIN Pending'
              /\ last'[s].op = "pop"

C3_PutTakeTake == [][\A h \in Threads : C3_Step(h)]_vars

\* C3 witness: a voice note was stored, a confirmation took it and was
\* logged, and the sender's next confirmation has found nothing.
C3_Witness ==
    \E h \in Threads :
        /\ th[h].branch = "confirm" /\ th[h].pc = "done"
        /\ th[h].response = NothingPendingReply
        /\ last[th[h].from_number].op = "pop"
        /\ Len(calls) = 1
        /\ FromNumber(calls[1].values) = th[h].from_number

\* C4: the entry of a sender is the text of the put that executed last for
\* that sender, whatever was stored before it.
C4_Overwrite ==
    \A s \in DOMAIN Pending :
        /\ s \in FromNumbers
        /\ last[s].op = "put"
        /\ Pending[s] = last[s].text

\* C4 witness: two voice notes of one sender stored two different texts, and
\* the only confirmation of the run has obtained the text stored last.
C4_Witness ==
    \E h \in Threads :
        /\ th[h].pc = "parse" /\ nreq = 3
        /\ Cardinality({x \in puts : x[1] = th[h].from_number}) = 2
        /\ th[h].transcription = Some(last[th[h].from_number].text)
        /\ \A g \in Threads : g # h => th[g].branch # "confirm"

\* C5: a confirmation whose sender has no entry at line 226 replies
\* nothing-pending with status 200, leaves the store, the sheet and the call
\* history as they are, and has called no collaborator.
C5_Step(h) ==
    (th[h].pc = "confirm" /\ Stepped(h) /\ th[h].from_number \notin DOMAIN Pending) =>
        /\ th'[h].pc = "done"
        /\ th'[h].response = NothingPendingReply
        /\ Pending' = Pending
        /\ th[h].from_number \notin DOMAIN Pending'
        /\ sheet_rows' = sheet_rows
        /\ calls' = calls
        /\ th'[h].used = {}

C5_NothingPending == [][\A h \in Threads : C5_Step(h)]_vars

\* C5 witness: a confirmation has been answered with nothing-pending.
C5_Witness ==
    \E h \in Threads :
        /\ th[h].branch = "confirm" /\ th[h].pc = "done"
        /\ th[h].response = NothingPendingReply
        /\ th[h].from_number \notin DOMAIN Pending
        /\ th[h].used = {}

\* C6: a step of a voice-note request changes the store only at line 285,
\* with a transcript that is not empty, does not start with "Transcription
\* failed" and is not "No transcription results found.", and then only the
\* sender's entry. A request that ends without the "I heard" reply ends with
\* one of the four failure replies or, after an exception of the download
\* that lines 265-273 do not take, with the fatal-error reply; the step to
\* the except clause and the step that ends the request leave the store as
\* it is.
C6_Step(h) ==
    (th[h].branch = "voice" /\ Stepped(h)) =>
        /\ Pending' # Pending =>
              /\ th[h].pc = "store"
              /\ th[h].transcribed_text.some # <<>>
              /\ ~StartsWith(th[h].transcribed_text.some, FailedPrefix)
              /\ th[h].transcribed_text.some # NoResultsText
              /\ DOMAIN Pending' = DOMAIN Pending \cup {th[h].from_number}
              /\ Pending'[th[h].from_number] = th[h].transcribed_text.some
              /\ \A s \in DOMAIN Pending :
                    s # th[h].from_number => Pending'[s] = Pending[s]
        /\ (th'[h].pc = "done" /\ th'[h].response.some.text # MSG_HEARD) =>
              /\ th'[h].response.some.text \in
                    {MSG_DOWNLOAD_ERROR, MSG_CONFIG_ERROR, MSG_STT_UNAVAILABLE,
                     MSG_NOT_TRANSCRIBED, MSG_FATAL}
              /\ th'[h].response.some.text = MSG_FATAL <=> th[h].pc = "except"
              /\ Pending' = Pending
        /\ th'[h].pc = "except" =>
              /\ th[h].pc = "fetch"
              /\ th'[h].exc \notin {"", "RequestException", "ValueError"}
              /\ Pending' = Pending

C6_FailedVoiceNoteKeepsStore == [][\A h \in Threads : C6_Step(h)]_vars

\* C6 witness: a voice note could not be transcribed and the transcript the
\* sender had pending before is still there.
C6_Witness ==
    \E h \in Threads :
        /\ th[h].branch = "voice" /\ th[h].pc = "done"
        /\ th[h].response.some.text = MSG_NOT_TRANSCRIBED
        /\ th[h].from_number \in DOMAIN Pending
        /\ nreq = 2

\* C7: when the sheet is unavailable or the row is not appended, the
\* confirmation replies that logging failed, the store is left as it is (the
\* entry taken at line 227 is not put back), log_to_google_sheet has been
\* called once and not again, and a later confirmation that follows the take
\* replies nothing-pending.
C7_Step(h) ==
    LET s == th[h].from_number
    IN  /\ (th[h].pc = "log" /\ Stepped(h)
              /\ (~env.SHEET \/ sheet_rows' = sheet_rows)) =>
              /\ th'[h].pc = "done"
              /\ th'[h].response =
                    Some([text |-> MSG_LOG_FAILED, arg |-> <<>>, status |-> 200])
              /\ sheet_rows' = sheet_rows
              /\ Pending' = Pending
              /\ last[s].op = "pop" => s \notin DOMAIN Pending'
              /\ Len(calls') = Len(calls) + 1
              /\ ~calls'[Len(calls')].ok
        /\ (th[h].pc = "done" /\ Stepped(h)) =>
              calls' = calls /\ th'[h].pc = "idle"
        /\ (th[h].pc = "confirm" /\ Stepped(h) /\ last[s].op = "pop"
              /\ \E i \in 1..Len(calls) :
                    ~calls[i].ok /\ FromNumber(calls[i].values) = s) =>
              th'[h].response = NothingPendingReply

C7_FailedPersistence == [][\A h \in Threads : C7_Step(h)]_vars

\* C7 witness: after a voice note and a confirmation whose logging failed,
\* the sender's next confirmation has been answered with nothing-pending.
C7_Witness ==
    \E h \in Threads :
        /\ th[h].branch = "confirm" /\ th[h].pc = "done"
        /\ th[h].response = NothingPendingReply
        /\ Len(calls) = 1 /\ ~calls[1].ok
        /\ FromNumber(calls[1].values) = th[h].from_number
        /\ sheet_rows = <<>>
        /\ th[h].from_number \notin DOMAIN Pending

\* C8: when the pattern does not match the transcript a confirmation took,
\* the reply is the could-not-be-parsed text with the raw transcript, status
\* 200; the request has not called log_to_google_sheet, and the store is left
\* as it is, without the entry taken.
C8_Step(h) ==
    LET s == th[h].from_number
    IN  (th[h].pc = "parse" /\ Stepped(h)
           /\ Unmatched(th[h].transcription.some)) =>
            /\ th'[h].pc = "done"
            /\ th'[h].response =
                  Some([text |-> MSG_NOT_PARSED, arg |-> th[h].transcription.some,
                        status |-> 200])
            /\ calls' = calls
            /\ sheet_rows' = sheet_rows
            /\ "sheet" \notin th'[h].used
            /\ Pending' = Pending
            /\ last[s].op = "pop" => s \notin DOMAIN Pending'

C8_ParseFailure == [][\A h \in Threads : C8_Step(h)]_vars

\* C8 witness: the transcript with no location clause was confirmed and the
\* reply echoes it.
C8_Witness ==
    \E h \in Threads :
        /\ th[h].branch = "confirm" /\ th[h].pc = "done"
        /\ th[h].response.some.text = MSG_NOT_PARSED
        /\ th[h].response.some.arg = TextNoLocation
        /\ th[h].from_number \notin DOMAIN Pending
        /\ calls = <<>>

\* C9 (as claimed): a confirmation that found an entry at line 226 ends with
\* one of the three normal replies and status 200.
C9_ConfirmEndsNormally ==
    \A h \in Threads :
        (th[h].found /\ th[h].pc \in {"except", "done"}) =>
            /\ th[h].pc = "done"
            /\ th[h].response.some.status = 200
            /\ th[h].response.some.text \in {MSG_LOGGED, MSG_LOG_FAILED, MSG_NOT_PARSED}

\* C10: a request has a response exactly when it has ended, and never two;
\* a request that raised ends with the fatal reply and status 500, any other
\* with another reply and status 200; a thread in the except clause can
\* take its step to the reply, a thread that has replied returns, and a
\* thread that has returned, after a fault or not, takes the next request.
C10_FaultsBecomeReplies ==
    \A h \in Threads :
        /\ th[h].pc = "done" <=> ~IsNone(th[h].response)
        /\ th[h].pc = "except" => th[h].exc # "" /\ ENABLED HandleFault(h)
        /\ th[h].pc = "done" =>
              /\ th[h].exc # "" =>
                    th[h].response = Some([text |-> MSG_FATAL, arg |-> <<>>, status |-> 500])
              /\ th[h].exc = "" =>
                    /\ th[h].response.some.status = 200
                    /\ th[h].response.some.text # MSG_FATAL
        /\ th[h].pc = "done" => ENABLED Return(h)
        /\ (th[h].pc = "idle" /\ nreq < MaxRequests) => ENABLED Receive(h)
        /\ th[h].exc # "" => th[h].pc \in {"except", "done"}

\* C10 witness: a request received after a fault was answered has stored a
\* transcript and been answered with the echo, status 200.
C10_Witness ==
    \E h \in Threads :
        /\ th[h].after_fault /\ faulted
        /\ th[h].pc = "done"
        /\ th[h].response.some.text = MSG_HEARD
        /\ th[h].response.some.status = 200
        /\ th[h].from_number \in DOMAIN Pending

\* the request of thread h carries an attachment whose media type is audio
AudioMessage(h) ==
    /\ ~IsNone(th[h].values)
    /\ "value" \in DOMAIN NumMedia(th[h].values.some)
    /\ NumMedia(th[h].values.some).value > 0
    /\ ~IsNone(th[h].values.some.MediaContentType0)
    /\ StartsWith(th[h].values.some.MediaContentType0.some, AudioPrefix)

\* C11 (as claimed): a message with an audio attachment is handled as a voice
\* note whatever its body is: it goes to the download of the audio, it never
\* takes the sender's pending transcript, and it never ends with a reply of
\* the confirmation branch.
C11_AudioIsVoiceNote ==
    \A h \in Threads :
        AudioMessage(h) =>
            /\ th[h].branch = "voice"
            /\ IsNone(th[h].transcription)
            /\ th[h].pc = "done" =>
                  th[h].response.some.text \notin
                      {MSG_NOTHING_PENDING, MSG_LOGGED, MSG_LOG_FAILED, MSG_NOT_PARSED}

\* the request of thread h is neither the confirmation nor a voice note, and
\* its NumMedia is a number
OtherMessage(values) ==
    /\ "value" \in DOMAIN NumMedia(values)
    /\ Strip(Get(values, "Body", <<>>)) # <<"1">>
    /\ \/ NumMedia(values).value <= 0
       \/ IsNone(values.MediaContentType0)
       \/ ~StartsWith(values.MediaContentType0.some, AudioPrefix)

\* C12: a message that is neither the confirmation nor a voice note goes to
\* the default handler of line 299; no step of such a request changes the
\* store, the sheet or the call history or calls a collaborator, and the
\* request ends with the welcome text, status 200.
C12_Step(h) ==
    /\ (th[h].pc = "idle" /\ Stepped(h) /\ OtherMessage(th'[h].values.some)) =>
          /\ th'[h].branch = "default"
          /\ th'[h].pc = "default"
          /\ Pending' = Pending
    /\ (th[h].branch = "default" /\ Stepped(h)) =>
          /\ OtherMessage(th[h].values.some)
          /\ Pending' = Pending
          /\ sheet_rows' = sheet_rows
          /\ calls' = calls
          /\ puts' = puts
          /\ th[h].used = {}
          /\ th[h].pc = "default" =>
                /\ th'[h].pc = "done"
                /\ th'[h].used = {}
                /\ th'[h].response =
                      Some([text |-> MSG_WELCOME, arg |-> <<>>, status |-> 200])

C12_OtherMessage == [][\A h \in Threads : C12_Step(h)]_vars

\* C12 witness: a picture sent while a transcript is pending has been
\* answered with the welcome text and the transcript is still pending.
C12_Witness ==
    \E h \in Threads :
        /\ th[h].branch = "default" /\ th[h].pc = "done"
        /\ th[h].values.some.MediaContentType0 = Some(CtImage)
        /\ th[h].response.some.text = MSG_WELCOME
        /\ th[h].from_number \in DOMAIN Pending
        /\ th[h].used = {}

\* C18 (as claimed): a confirmation handled while a voice note of the same
\* sender is being handled ends without a fault: with the nothing-pending
\* reply when it took no transcript, and otherwise with a transcript that is
\* the whole text of one put for that sender.
C18_ConsistentTake ==
    \A h \in Threads :
        (/\ th[h].branch = "confirm"
         /\ th[h].pc \in {"except", "done"}
         /\ \E g \in Threads \ {h} :
               th[g].branch = "voice" /\ th[g].from_number = th[h].from_number) =>
            /\ th[h].exc = ""
            /\ th[h].pc = "done"
            /\ IsNone(th[h].transcription) => th[h].response = NothingPendingReply
            /\ ~IsNone(th[h].transcription) =>
                  <<th[h].from_number, th[h].transcription.some>> \in puts

\* the calls of log_to_google_sheet made for sender s
CallsFor(s) == {i \in 1..Len(calls) : FromNumber(calls[i].values) = s}

\* the requests of sender s that hold a transcript taken at line 227 and have
\* not yet logged it or given it up
Holders(s) == {h \in Threads : th[h].from_number = s /\ th[h].pc \in {"parse", "log"}}

\* C19: for every sender, the calls of log_to_google_sheet, the transcripts
\* taken and not yet logged, and the entry still in the store together never
\* outnumber the transcripts stored for that sender; so the calls alone never
\* do, and every call logs a transcript that was stored for the sender.
C19_NoDoubleLog ==
    \A s \in FromNumbers :
        /\ Cardinality(CallsFor(s)) + Cardinality(Holders(s))
              + (IF s \in DOMAIN Pending THEN 1 ELSE 0) <= nputs[s]
        /\ Cardinality(CallsFor(s)) <= nputs[s]
        /\ \A i \in CallsFor(s) : <<s, calls[i].transcription>> \in puts

\* C19 witness: one transcript was stored for a sender and two confirmations
\* of that sender were handled together; one was logged and the other ended
\* in the except clause.
C19_Witness ==
    \E h \in Threads :
        /\ th[h].branch = "confirm" /\ th[h].pc = "done"
        /\ th[h].exc = "KeyError"
        /\ nputs[th[h].from_number] = 1
        /\ Cardinality(CallsFor(th[h].from_number)) = 1

\* C20 (as claimed): the transcript a confirmation has taken has already been
\* echoed to its sender in an "I heard" reply.
C20_EchoedBeforeTaken ==
    \A h \in Threads :
        (th[h].branch = "confirm" /\ ~IsNone(th[h].transcription)) =>
            <<th[h].from_number, th[h].transcription.some>> \in echoed

\* line 228 has returned or raised for the transcript thread h took
Parsed(h) == ~IsNone(th[h].transcription) /\ th[h].pc \in {"log", "done", "except"}

\* the record of thread h has the values of the clauses of case k
FieldsOf(h, k) ==
    /\ th[h].exc = ""
    /\ ~IsNone(th[h].delivery_data)
    /\ th[h].delivery_data.some.client_index = k.client_index
    /\ th[h].delivery_data.some.quantity = k.quantity
    /\ th[h].delivery_data.some.feed_type = k.feed_type
    /\ th[h].delivery_data.some.price = k.price
    /\ th[h].delivery_data.some.location = k.location

\* C13 (as claimed): for a transcript with the four required clauses in
\* order and no notes clause, the extraction returns a record with the
\* values of the clauses, notes "N/A", debt 0 and overpaid 0.
C13_NotesDefault ==
    \A h \in Threads : \A k \in FourClauseCases :
        (Parsed(h) /\ th[h].transcription.some = k.text) =>
            /\ FieldsOf(h, k)
            /\ th[h].delivery_data.some.notes = <<"N", "/", "A">>
            /\ th[h].delivery_data.some.debt = 0
            /\ th[h].delivery_data.some.overpaid = 0

\* C14: for a transcript in which one of the four required clauses is
\* missing or has no valid value, or in which two of them stand in the other
\* order, the extraction returns None: nothing is raised, there is no record,
\* nothing is logged, and the reply is the could-not-be-parsed text with the
\* transcript.
C14_MissingClauseFails ==
    \A h \in Threads :
        (Parsed(h) /\ th[h].transcription.some \in BrokenTexts) =>
            /\ th[h].exc = ""
            /\ IsNone(th[h].delivery_data)
            /\ th[h].pc = "done"
            /\ th[h].response =
                  Some([text |-> MSG_NOT_PARSED, arg |-> th[h].transcription.some,
                        status |-> 200])
            /\ calls = <<>>
            /\ sheet_rows = <<>>

\* C14 witness: a transcript with the location clause before the price
\* clause has been answered with the could-not-be-parsed text.
C14_Witness ==
    \E h \in Threads :
        /\ Parsed(h) /\ th[h].pc = "done"
        /\ th[h].response.some.text = MSG_NOT_PARSED
        /\ \E c \in ClauseTexts(ClientClauses), d \in ClauseTexts(DeliveredClauses),
              p \in ClauseTexts(PriceClauses), l \in ClauseTexts(LocationClauses) :
              th[h].transcription.some = JoinWith(<<c, d, l, p>>, <<" ">>)

\* the record of thread h has the values of the five clauses of case k,
\* quantity and price as integers
RecordOf(h, k) ==
    /\ FieldsOf(h, k)
        /\ th[h].delivery_data.some.quantity = 12
        /\ th[h].delivery_data.some.feed_type = <<"L", "a", "y", "e", "r", " ", "M", "a", "s", "h">>
        /\ th[h].delivery_data.some.price = 90
        /\ th[h].delivery_data.some.location = <<"M", "i", "h", "a", "n", "g", "'", "o">>
        /\ th[h].delivery_data.some.notes = <<"p", "a", "i", "d", " ", "c", "a", "s", "h">>

\* C16 (as claimed): when a clause is said twice, the record has the value
\* of the occurrence that comes first in the text.
C16_FirstOccurrence ==
    \A h \in Threads : \A k \in RepeatedCases :
        (Parsed(h) /\ th[h].transcription.some = k.text) =>
            /\ FieldsOf(h, k)
            /\ th[h].delivery_data.some.notes = k.notes

\* the number of days before 1 January of year y in the Gregorian calendar
DaysBeforeYear(y) == 365 * (y - 1) + ((y - 1) \div 4) - ((y - 1) \div 100) + ((y - 1) \div 400)

\* the number of days of a common year before the first of each month
DaysBeforeMonth == <<0, 31, 59, 90, 120, 151, 181, 212, 243, 273, 304, 334>>

\* the day number of a date: 1 for 0001-01-01
Ordinal(date) ==
    DaysBeforeYear(date.y) + DaysBeforeMonth[date.m] + date.d
    + (IF date.m > 2 /\ DaysBeforeYear(date.y + 1) - DaysBeforeYear(date.y) = 366
       THEN 1 ELSE 0)

\* text is a year of one to four digits, a month and a day of two digits,
\* with "-" between them
IsDateText(text) ==
    /\ Len(text) \in 7..10
    /\ text[Len(text) - 5] = "-" /\ text[Len(text) - 2] = "-"
    /\ \A i \in (1..Len(text)) \ {Len(text) - 5, Len(text) - 2} :
          text[i] \in {"0", "1", "2", "3", "4", "5", "6", "7", "8", "9"}

\* the date such a text stands for
ReadDate(text) ==
    [y |-> DigitsValue(SubSeq(text, 1, Len(text) - 6)),
     m |-> DigitsValue(SubSeq(text, Len(text) - 4, Len(text) - 3)),
     d |-> DigitsValue(SubSeq(text, Len(text) - 1, Len(text)))]

\* date is a day of the calendar
IsCalendarDay(date) ==
    /\ date.y \in 1..9999
    /\ date.m \in 1..12
    /\ date.d >= 1
    /\ Ordinal(date) < Ordinal(IF date.m = 12 THEN [y |-> date.y + 1, m |-> 1, d |-> 1]
                                               ELSE [y |-> date.y, m |-> date.m + 1, d |-> 1])

\* reminders is "Guboro: <first>; La Sota: <second>", first and second being
\* the days 14 and 21 days after the day on
RemindersFor(on, first, second, reminders) ==
    /\ reminders = <<"G", "u", "b", "o", "r", "o", ":", " ">> \o first
                   \o <<";", " ", "L", "a", " ", "S", "o", "t", "a", ":", " ">> \o second
    /\ IsDateText(first) /\ IsDateText(second)
    /\ IsCalendarDay(ReadDate(first)) /\ IsCalendarDay(ReadDate(second))
    /\ Ordinal(ReadDate(first)) = Ordinal(on) + 14
    /\ Ordinal(ReadDate(second)) = Ordinal(on) + 21
    /\ Ordinal(ReadDate(second)) = Ordinal(ReadDate(first)) + 7

\* reminders holds the two days for the day on, each written with a year of
\* one to four digits
HasReminders(on, reminders) ==
    \E a \in 7..10 :
        /\ Len(reminders) - a - 19 \in 7..10
        /\ RemindersFor(on, SubSeq(reminders, 9, 8 + a),
                        SubSeq(reminders, a + 20, Len(reminders)), reminders)

\* the request of thread h has stamped its record at lines 232-235 and
\* logged it
Reminded(h) ==
    /\ ~IsNone(th[h].delivery_date)
    /\ th[h].exc = ""
    /\ ~IsNone(th[h].delivery_data)
    /\ IsDateText(th[h].delivery_data.some.date)
    /\ ReadDate(th[h].delivery_data.some.date) = th[h].delivery_date.some
    /\ HasReminders(th[h].delivery_date.some, th[h].delivery_data.some.reminders)
    /\ \E i \in 1..Len(calls) : calls[i].data = th[h].delivery_data.some

\* C17 (as claimed): for every day the reminders are calculated for, the
\* record has the Guboro date, 14 days after that day, and then the La Sota
\* date, 21 days after it and 7 days after the first.
C17_AsClaimed ==
    \A h \in Threads : ~IsNone(th[h].delivery_date) => Reminded(h)

\* C17: for every day up to 9999-12-10 the reminders are calculated for, the
\* record logged has the Guboro date, 14 days after that day, and then the La
\* Sota date, 21 days after it and 7 days after the first, both days of the
\* calendar, also across the end of a month, of February and of the year;
\* the record of 2024-03-01 has "Guboro: 2024-03-15; La Sota: 2024-03-22".
\* For a later day, whose La Sota date would be past 9999-12-31, the
\* calculation raises OverflowError: nothing is logged and the request ends
\* in the except clause.
C17_ReminderDates ==
    /\ \A h \in Threads :
          ~IsNone(th[h].delivery_date) =>
              IF Ordinal(th[h].delivery_date.some) <= Ordinal([y |-> 9999, m |-> 12, d |-> 10])
              THEN /\ Reminded(h)
                   /\ th[h].delivery_date.some = [y |-> 2024, m |-> 3, d |-> 1] =>
                         th[h].delivery_data.some.reminders =
                             <<"G", "u", "b", "o", "r", "o", ":", " ",
                               "2", "0", "2", "4", "-", "0", "3", "-", "1", "5",
                               ";", " ", "L", "a", " ", "S", "o", "t", "a", ":", " ",
                               "2", "0", "2", "4", "-", "0", "3", "-", "2", "2">>
              ELSE /\ th[h].exc = "OverflowError"
                   /\ th[h].pc \in {"except", "done"}
                   /\ th[h].pc = "done" =>
                         th[h].response = Some(Response(MSG_FATAL, <<>>, STATUS_FATAL))
                   /\ calls = <<>> /\ sheet_rows = <<>>
    /\ \A i \in 1..Len(calls) :
          /\ IsDateText(calls[i].data.date)
          /\ HasReminders(ReadDate(calls[i].data.date), calls[i].data.reminders)

\* C17 witness: the record of 2024-02-15 has been logged, with its reminders
\* on 2024-02-29 and 2024-03-07.
C17_Witness ==
    /\ Len(calls) = 1
    /\ \E h \in Threads : th[h].delivery_date = Some([y |-> 2024, m |-> 2, d |-> 15])
    /\ calls[1].data.date = <<"2", "0", "2", "4", "-", "0", "2", "-", "1", "5">>
    /\ calls[1].data.reminders =
          <<"G", "u", "b", "o", "r", "o", ":", " ",
            "2", "0", "2", "4", "-", "0", "2", "-", "2", "9",
            ";", " ", "L", "a", " ", "S", "o", "t", "a", ":", " ",
            "2", "0", "2", "4", "-", "0", "3", "-", "0", "7">>

====
